---------------------------- MODULE Spec2Model ----------------------------
(***************************************************************************)
(* Partner survey system (streamlit-migration/app.py, app_v1.py).          *)
(*                                                                         *)
(* Two storage variants share every other line of the program:             *)
(*   "direct"  app.py     one cached psycopg2 connection, explicit         *)
(*                        commit / rollback;                               *)
(*   "helper"  app_v1.py  postgres_fetch / postgres_insert, each statement *)
(*                        applied on its own, no transaction.              *)
(*                                                                         *)
(* Specifications:                                                         *)
(*   Spec         the storage handlers, any statement of a submit failing  *)
(*   SpecLineage  submissions by several partners, then lookups            *)
(*   SpecUpdate   submissions that claim to update an earlier one          *)
(*   SpecShow     should_show_question applied to arbitrary inputs         *)
(*   SpecForm     the partner page (render_partner_mode) over a store      *)
(*   SpecShared   two sessions submitting through the one connection       *)
(*   SpecExport   export_all_submissions over stores built by submits      *)
(*   SpecCodec    the multi-select and matrix answer encodings             *)
(*   SpecRating   the partner page on a template with a rating question    *)
(*   SpecAdmin    the upload tab of render_admin_mode                      *)
(*   SpecParse    parse_survey_file applied to a sheet of one row          *)
(*   SpecRecheck  the partner page while company and customer change       *)
(*   SpecRefetch  two app_v1.py submits interleaving statement by statement*)
(*   SpecGrid     the partner page on a matrix question without rows       *)
(***************************************************************************)
EXTENDS Integers, Sequences, FiniteSets, TLC

VARIABLES
    variant,   \* "direct" (app.py) or "helper" (app_v1.py); fixed by Init
    db,        \* committed tables
    conn,      \* tables as seen through the connection (uncommitted work included)
    call,      \* the last handler call: its arguments and what it returned
    session,   \* st.session_state of the partner page
    page       \* what the last run of the partner page did and showed

vars == <<variant, db, conn, call, session, page>>

-----------------------------------------------------------------------------
(* Python values.  A value is its type tag and its str() form; str() drops *)
(* the tag, so 1 and "1" differ as values and agree as strings.            *)

PyStr(s) == [k |-> "str", s |-> s]
PyInt(s) == [k |-> "int", s |-> s]
PyNone == [k |-> "none", s |-> "None"]

\* str(v)
Str(v) == v.s

\* bool(v): '' , 0 and None are falsy
Truthy(v) ==
    CASE v.k = "str" -> v.s # ""
      [] v.k = "int" -> v.s # "0"
      [] OTHER -> FALSE

\* dict helpers: a dict is a function whose DOMAIN is its key set
EmptyDict == [x \in {} |-> PyNone]
DictSet(d, key, v) == [x \in DOMAIN d \cup {key} |-> IF x = key THEN v ELSE d[x]]

Max(S) == CHOOSE x \in S : \A y \in S : y <= x

\* absent dict key / SQL NULL in a text column
Absent == "<absent>"
\* SQL NULL in an integer column (ids start at 1)
Null == 0

-----------------------------------------------------------------------------
(* Questions and templates.                                                *)

\* one question of a template, as parse_survey_file builds it
Question(id, type, text, section, required, dependsOn, dependsOnValue) ==
    [id |-> id, type |-> type, question |-> text, section |-> section,
     required |-> required, dependsOn |-> dependsOn,
     dependsOnValue |-> dependsOnValue]

\* the question lists an administrator uploads in this model
IntakeQuestions ==
    << Question("Name", "text", "Name", "General", TRUE, Absent, Absent),
       Question("Details", "text", "Details", "General", FALSE, "Name", "Other") >>

ChainQuestions ==
    << Question("Uses", "text", "Uses product", "General", FALSE, Absent, Absent),
       Question("Area", "text", "Which area", "General", FALSE, "Uses", Absent),
       Question("Issue", "text", "Which issue", "General", TRUE, "Area", Absent) >>

AuditQuestions ==
    << Question("R1", "text", "Scope", "Audit", TRUE, Absent, Absent),
       Question("R2", "text", "Owner", "Audit", TRUE, Absent, Absent),
       Question("R3", "text", "Period", "Audit", TRUE, Absent, Absent),
       Question("R4", "text", "Result", "Audit", TRUE, Absent, Absent) >>

\* a rating question: parse_survey_file adds the bounds of the slider
RatingQuestion(id, text, section, required, minRating, maxRating) ==
    [id |-> id, type |-> "rating", question |-> text, section |-> section,
     required |-> required, dependsOn |-> Absent, dependsOnValue |-> Absent,
     minRating |-> minRating, maxRating |-> maxRating]

ScoreQuestions ==
    << RatingQuestion("Rate", "Rating", "General", TRUE, 0, 1) >>

\* the mutant compares the controlling answer itself, not its string form
should_show_question_raw(question, responses) ==
    IF question.dependsOn = Absent THEN TRUE
    ELSE IF question.dependsOn \notin DOMAIN responses THEN FALSE
    ELSE IF question.dependsOnValue # Absent /\ question.dependsOnValue # ""
         THEN responses[question.dependsOn] = PyStr(question.dependsOnValue)
         ELSE Truthy(responses[question.dependsOn])

\* should_show_question(question, responses)
should_show_question(question, responses) ==
    IF question.dependsOn = Absent
    THEN TRUE
    ELSE LET depends_on_id == question.dependsOn
             depends_on_value == question.dependsOnValue
         IN IF depends_on_id \notin DOMAIN responses
            THEN FALSE
            ELSE LET current_value == responses[depends_on_id]
                 IN IF depends_on_value # Absent /\ depends_on_value # ""
                    THEN Str(current_value) = depends_on_value
                    ELSE Truthy(current_value)

-----------------------------------------------------------------------------
(* The relational store.  A table is a set of rows; a generated id is one  *)
(* more than the largest id the connection sees in the table.              *)

EmptyTables ==
    [customers |-> {}, partners |-> {}, templates |-> {},
     submissions |-> {}, responses |-> {}]

NextId(rows) == IF rows = {} THEN 1 ELSE Max({r.id : r \in rows}) + 1

\* INSERT INTO customers ... ON CONFLICT (customer_id) DO UPDATE SET customer_company
UpsertCustomer(T, customer_id, customer_company) ==
    [T EXCEPT !.customers =
        {c \in @ : c.customer_id # customer_id}
        \cup {[customer_id |-> customer_id, customer_company |-> customer_company]}]

\* INSERT INTO partners ... ON CONFLICT (partner_name, partner_company) DO UPDATE
UpsertPartner(T, partner_name, partner_company) ==
    IF \E p \in T.partners :
            p.partner_name = partner_name /\ p.partner_company = partner_company
    THEN T
    ELSE [T EXCEPT !.partners = @ \cup
            {[id |-> NextId(T.partners), partner_name |-> partner_name,
              partner_company |-> partner_company]}]

\* the id the partner upsert returns (app.py) or the following SELECT reads (app_v1.py)
PartnerId(T, partner_name, partner_company) ==
    (CHOOSE p \in T.partners :
        p.partner_name = partner_name /\ p.partner_company = partner_company).id

\* SELECT id, questions FROM templates WHERE template_name = %s
TemplateByName(T, template_name) ==
    {t \in T.templates : t.template_name = template_name}

\* the mutant drops the customer from the WHERE clause
PreviousSubmissionId_anycustomer(T, customer_id, partner_name, partner_company, template_id) ==
    LET ids == {s.id : s \in {s \in T.submissions :
                    /\ s.template_id = template_id
                    /\ \E p \in T.partners :
                          /\ p.id = s.partner_id
                          /\ p.partner_name = partner_name
                          /\ p.partner_company = partner_company}}
    IN IF ids = {} THEN Null ELSE Max(ids)

\* SELECT MAX(s.id) ... WHERE customer, partner name, partner company, template
PreviousSubmissionId(T, customer_id, partner_name, partner_company, template_id) ==
    LET ids == {s.id : s \in {s \in T.submissions :
                    /\ s.customer_id = customer_id
                    /\ s.template_id = template_id
                    /\ \E p \in T.partners :
                          /\ p.id = s.partner_id
                          /\ p.partner_name = partner_name
                          /\ p.partner_company = partner_company}}
    IN IF ids = {} THEN Null ELSE Max(ids)

\* the mutant updates in place: an updating submission takes the place of the
\* one it follows
InsertSubmission_inplace(T, customer_id, partner_id, template_id, is_update, previous) ==
    [T EXCEPT !.submissions = {s \in @ : s.id # previous} \cup
        {[id |-> NextId(T.submissions), customer_id |-> customer_id,
          partner_id |-> partner_id, template_id |-> template_id,
          is_update |-> is_update, previous_submission_id |-> previous]}]

\* INSERT INTO submissions (...) RETURNING id
InsertSubmission(T, customer_id, partner_id, template_id, is_update, previous) ==
    [T EXCEPT !.submissions = @ \cup
        {[id |-> NextId(T.submissions), customer_id |-> customer_id,
          partner_id |-> partner_id, template_id |-> template_id,
          is_update |-> is_update, previous_submission_id |-> previous]}]

\* the mutant tests the answer's truth value (`if response_value:`)
StoredKeys_truthy(responses) ==
    {q \in DOMAIN responses : Truthy(responses[q])}

\* the answers submit writes a row for: response_value is not None and != ''
StoredKeys(responses) ==
    {q \in DOMAIN responses : responses[q] # PyNone /\ responses[q] # PyStr("")}

\* next((q for q in template_questions if q['id'] == question_id), None):
\* the first question with that id, as a set of at most one element
QuestionDetail(template_questions, question_id) ==
    LET hits == {i \in 1..Len(template_questions) :
                    template_questions[i].id = question_id}
    IN IF hits = {} THEN {}
       ELSE {template_questions[CHOOSE i \in hits : \A j \in hits : i <= j]}

\* the mutant stores the template's fields only: an id the template does not
\* have gets an empty question text and no type
ResponseRow_blank(id, submission_id, question_id, value, template_questions) ==
    LET found == QuestionDetail(template_questions, question_id)
        d == CHOOSE q \in found : TRUE
    IN [id |-> id, submission_id |-> submission_id, question_id |-> question_id,
        question_text |-> IF found = {} THEN "" ELSE d.question,
        response_value |-> Str(value),
        response_type |-> IF found = {} THEN Absent ELSE d.type,
        section_name |-> IF found = {} THEN Absent ELSE d.section]

\* one row of the responses table, its question text, type and section copied
\* from the template as it is now
ResponseRow(id, submission_id, question_id, value, template_questions) ==
    LET found == QuestionDetail(template_questions, question_id)
        d == CHOOSE q \in found : TRUE
    IN [id |-> id, submission_id |-> submission_id, question_id |-> question_id,
        question_text |-> IF found = {} THEN question_id ELSE d.question,
        response_value |-> Str(value),
        response_type |-> IF found = {} THEN "unknown" ELSE d.type,
        section_name |-> IF found = {} THEN Absent ELSE d.section]

\* the INSERT INTO responses statements for the keys of `order`, one after the other
RECURSIVE InsertResponses(_, _, _, _, _)
InsertResponses(T, submission_id, responses, template_questions, order) ==
    IF order = << >> THEN T
    ELSE LET q == Head(order)
             T1 == [T EXCEPT !.responses = @ \cup
                      {ResponseRow(NextId(T.responses), submission_id, q,
                                   responses[q], template_questions)}]
         IN InsertResponses(T1, submission_id, responses, template_questions,
                            Tail(order))

\* The order in which `for question_id, response_value in responses.items()`
\* visits the keys it stores.  A dict is kept here as a function, without its
\* insertion order; rows get their ids in this fixed order.
KeyOrder == << "Name", "Details", "Uses", "Area", "Issue",
               "R1", "R2", "R3", "R4", "Rate", "Zed", "Grid" >>

ItemsOrder(keys) == SelectSeq(KeyOrder, LAMBDA q : q \in keys)

-----------------------------------------------------------------------------
(* submit_survey_responses: the statements in program order.  `failAt` is  *)
(* the statement the store fails on ("none": no failure); for a failing    *)
(* response insert, `done` are the answers whose rows were inserted before *)
(* it.                                                                     *)

StepOrder == << "customer", "partner", "template", "previous", "submission",
                "refetch", "response", "commit", "none" >>

StepIndex(step) == CHOOSE i \in 1..Len(StepOrder) : StepOrder[i] = step

\* the statement at which the call stops: the injected failure, or the
\* template lookup when it finds no row (raise Exception("Template ... not found"))
StopStep(T, a, failAt) ==
    IF /\ StepIndex(failAt) > StepIndex("template")
       /\ TemplateByName(T, a.template_name) = {}
    THEN "template"
    ELSE failAt

\* the id of the inserted submission as each variant learns it:
\* RETURNING id (app.py) or the newest row of (partner_id, template_id) (app_v1.py)
FetchedSubmission(T, v, partner_id, template_id) ==
    IF v = "direct"
    THEN CHOOSE s \in T.submissions : \A o \in T.submissions : o.id <= s.id
    ELSE LET mine == {s \in T.submissions :
                        s.partner_id = partner_id /\ s.template_id = template_id}
         IN CHOOSE s \in mine : \A o \in mine : o.id <= s.id

\* the tables the statements of one call have produced when it stops, and
\* what the call returns
SubmitRun(T, v, a, failAt, done) ==
    LET stop == StopStep(T, a, failAt)
        at(step) == StepIndex(stop) = StepIndex(step)
        T1 == UpsertCustomer(T, a.customer_id, a.customer_company)
        T2 == UpsertPartner(T1, a.partner_name, a.partner_company)
        partner_id == PartnerId(T2, a.partner_name, a.partner_company)
        template == CHOOSE t \in TemplateByName(T2, a.template_name) : TRUE
        previous == IF a.is_update
                    THEN PreviousSubmissionId(T2, a.customer_id, a.partner_name,
                                              a.partner_company, template.id)
                    ELSE Null
        T3 == InsertSubmission(T2, a.customer_id, partner_id, template.id,
                               a.is_update, previous)
        fetched == FetchedSubmission(T3, v, partner_id, template.id)
        mismatch == v = "helper" /\ fetched.customer_id # a.customer_id
        rows(keys) == InsertResponses(T3, fetched.id, a.responses,
                                      template.questions, ItemsOrder(keys))
        T4 == rows(StoredKeys(a.responses))
    IN  CASE at("customer") -> [tables |-> T, success |-> FALSE,
                                submission_id |-> Null, error |-> "storage"]
          [] at("partner") -> [tables |-> T1, success |-> FALSE,
                               submission_id |-> Null, error |-> "storage"]
          [] at("template") ->
                [tables |-> T2, success |-> FALSE, submission_id |-> Null,
                 error |-> IF stop = failAt THEN "storage" ELSE "template_not_found"]
          [] at("previous") \/ at("submission") ->
                [tables |-> T2, success |-> FALSE, submission_id |-> Null,
                 error |-> "storage"]
          [] at("refetch") -> [tables |-> T3, success |-> FALSE,
                               submission_id |-> Null, error |-> "storage"]
          [] mismatch -> [tables |-> T3, success |-> FALSE,
                          submission_id |-> Null, error |-> "customer_mismatch"]
          [] at("response") -> [tables |-> rows(done), success |-> FALSE,
                                submission_id |-> Null, error |-> "storage"]
          [] at("commit") -> [tables |-> T4, success |-> FALSE,
                              submission_id |-> Null, error |-> "storage"]
          [] OTHER -> [tables |-> T4, success |-> TRUE,
                       submission_id |-> fetched.id, error |-> ""]

\* the statements a call with these arguments can fail on
FailPoints(v, a) ==
    {"none", "customer", "partner", "template", "submission"}
    \cup (IF a.is_update THEN {"previous"} ELSE {})
    \cup (IF v = "helper" THEN {"refetch"} ELSE {"commit"})
    \cup (IF StoredKeys(a.responses) # {} THEN {"response"} ELSE {})

\* the answers that can have been stored before a failing response insert
DoneSets(a, failAt) ==
    IF failAt = "response"
    THEN {d \in SUBSET StoredKeys(a.responses) : d # StoredKeys(a.responses)}
    ELSE {{}}

-----------------------------------------------------------------------------
(* check_existing_responses and upload_template.                           *)

\* the mutant reads the oldest matching submission (MIN for MAX)
ExistingRows_oldest(T, customer_id, partner_company, template_name) ==
    LET matches(s) ==
            /\ s.customer_id = customer_id
            /\ \E p \in T.partners :
                  p.id = s.partner_id /\ p.partner_company = partner_company
            /\ \E t \in T.templates :
                  t.id = s.template_id /\ t.template_name = template_name
        ids == {s.id : s \in {s \in T.submissions : matches(s)}}
    IN IF ids = {} THEN {}
       ELSE {r \in T.responses :
                r.submission_id = CHOOSE i \in ids : \A j \in ids : i <= j}

\* the rows of the check_existing_responses query: responses of the newest
\* submission of (customer, partner company, template name), joined with its
\* partner, customer and template
ExistingRows(T, customer_id, partner_company, template_name) ==
    LET matches(s) ==
            /\ s.customer_id = customer_id
            /\ \E p \in T.partners :
                  p.id = s.partner_id /\ p.partner_company = partner_company
            /\ \E t \in T.templates :
                  t.id = s.template_id /\ t.template_name = template_name
        ids == {s.id : s \in {s \in T.submissions : matches(s)}}
    IN IF ids = {} THEN {}
       ELSE {r \in T.responses :
                /\ r.submission_id = Max(ids)
                /\ \E s \in T.submissions :
                      /\ s.id = r.submission_id
                      /\ matches(s)
                      /\ \E c \in T.customers : c.customer_id = s.customer_id}

\* what check_existing_responses returns for the rows it read
ExistingResult(T, rows) ==
    IF rows # {}
    THEN [has_existing |-> TRUE,
          responses |-> [q \in {r.question_id : r \in rows} |->
                            PyStr((CHOOSE r \in rows : r.question_id = q).response_value)],
          previous_partner_name |->
              LET s == CHOOSE s \in T.submissions :
                          \E r \in rows : r.submission_id = s.id
              IN (CHOOSE p \in T.partners : p.id = s.partner_id).partner_name]
    ELSE [has_existing |-> FALSE, responses |-> EmptyDict,
          previous_partner_name |-> Absent]

\* the mutant has no ON CONFLICT clause: every upload inserts a row
UpsertTemplate_append(T, survey_name, questions, description) ==
    [T EXCEPT !.templates = @ \cup
        {[id |-> NextId(T.templates), template_name |-> survey_name,
          questions |-> questions, description |-> description]}]

\* the mutant's ON CONFLICT clause also sets the description
UpsertTemplate_redescribed(T, survey_name, questions, description) ==
    IF TemplateByName(T, survey_name) # {}
    THEN [T EXCEPT !.templates =
            {IF t.template_name = survey_name
             THEN [t EXCEPT !.questions = questions, !.description = description]
             ELSE t : t \in @}]
    ELSE [T EXCEPT !.templates = @ \cup
            {[id |-> NextId(T.templates), template_name |-> survey_name,
              questions |-> questions, description |-> description]}]

\* INSERT INTO templates ... ON CONFLICT (template_name) DO UPDATE SET questions
UpsertTemplate(T, survey_name, questions, description) ==
    IF TemplateByName(T, survey_name) # {}
    THEN [T EXCEPT !.templates =
            {IF t.template_name = survey_name
             THEN [t EXCEPT !.questions = questions] ELSE t : t \in @}]
    ELSE [T EXCEPT !.templates = @ \cup
            {[id |-> NextId(T.templates), template_name |-> survey_name,
              questions |-> questions, description |-> description]}]

-----------------------------------------------------------------------------
(* Bounds and the arguments the handlers are called with.                  *)

\* no submit is started once the connection sees this many submissions
MaxSubmissions == 2

Variants == {"direct", "helper"}

\* answer dicts: only empty answers; a text answer, an empty answer and an
\* integer answer under an id no template has; a controlling and a dependent answer
OnlyEmptyAnswers ==
    [q \in {"Name", "Details"} |-> IF q = "Name" THEN PyStr("") ELSE PyNone]

MixedAnswers ==
    [q \in {"Name", "Details", "Zed"} |->
        CASE q = "Name" -> PyStr("Acme")
          [] q = "Details" -> PyStr("")
          [] OTHER -> PyInt("0")]

OtherAnswers ==
    [q \in {"Name", "Details"} |-> IF q = "Name" THEN PyStr("Other") ELSE PyStr("y")]

\* the customers table is filled outside this program
SeedTables ==
    [EmptyTables EXCEPT !.customers =
        {[customer_id |-> "c1", customer_company |-> "Acme Co"]}]

NoCall == [op |-> "none"]
NoSession == [started |-> FALSE]
NoPage == [ran |-> FALSE]

-----------------------------------------------------------------------------
(* The handlers.  `call` keeps what a call returned; of its arguments it   *)
(* keeps those of a successful submit and of a check that read the store.  *)

\* submit_survey_responses(...): the store and the return value after the
\* call, from the committed tables D and the connection's tables C
submit_survey_responses(v, D, C, a, failAt, done) ==
    LET run == SubmitRun(C, v, a, failAt, done)
        ret == IF run.success
               THEN [op |-> "submit", success |-> TRUE, args |-> a,
                     submission_id |-> run.submission_id]
               ELSE [op |-> "submit", success |-> FALSE, error |-> run.error]
    IN IF v = "helper"
       THEN \* every statement is applied as it is executed
            [db |-> run.tables, conn |-> run.tables, ret |-> ret]
       ELSE IF run.success
            THEN \* conn.commit()
                 [db |-> run.tables, conn |-> run.tables, ret |-> ret]
            ELSE \* conn.rollback()
                 [db |-> D, conn |-> D, ret |-> ret]

\* a read through execute_query (app.py: a failing statement rolls the
\* connection back) or postgres_fetch (app_v1.py): the tables after it
ReadThrough(v, D, C, failed) ==
    IF failed /\ v = "direct" THEN [db |-> D, conn |-> D]
    ELSE [db |-> D, conn |-> C]

\* check_existing_responses(customer_id, partner_company, template_name);
\* `failed`: the query fails (execute_query returns None, postgres_fetch
\* returns no DataFrame or raises)
check_existing_responses(v, D, C, customer_id, partner_company, template_name, failed) ==
    LET rows == IF failed THEN {}
                ELSE ExistingRows(C, customer_id, partner_company, template_name)
        after == ReadThrough(v, D, C, failed)
        ret == IF failed
               THEN [op |-> "check", failed |-> TRUE,
                     result |-> ExistingResult(C, rows)]
               ELSE [op |-> "check", failed |-> FALSE,
                     customer_id |-> customer_id,
                     partner_company |-> partner_company,
                     template_name |-> template_name,
                     result |-> ExistingResult(C, rows)]
    IN [db |-> after.db, conn |-> after.conn, ret |-> ret]

\* upload_template(survey_name, questions, description).  app.py runs the
\* statement through execute_query(fetch=True), which does not commit;
\* app_v1.py ignores what postgres_insert returns (`fail` = "message": an
\* error dict) and reports failure only when it raises.
upload_template(v, D, C, survey_name, questions, description, fail) ==
    LET T == UpsertTemplate(C, survey_name, questions, description)
        ret == [op |-> "upload", survey_name |-> survey_name,
                questions |-> questions, description |-> description,
                fail |-> fail,
                ok |-> IF v = "direct" THEN fail = "none" ELSE fail # "raise"]
    IN IF v = "helper"
       THEN IF fail = "none"
            THEN [db |-> T, conn |-> T, ret |-> ret]
            ELSE [db |-> D, conn |-> C, ret |-> ret]
       ELSE IF fail = "none"
            THEN [db |-> D, conn |-> T, ret |-> ret]
            ELSE \* conn.rollback()
                 [db |-> D, conn |-> D, ret |-> ret]

\* the store and `call` after a handler returned `out`
Returned(out) ==
    /\ db' = out.db
    /\ conn' = out.conn
    /\ call' = out.ret

UploadFailures == {"none", "raise"} \cup (IF variant = "helper" THEN {"message"} ELSE {})

\* a submit call with arguments drawn from the given sets; `failing`: the
\* store may fail on any statement
SubmitWith(Customers, Partners, Templates, Answers, Updates, failing) ==
    \E c \in Customers, p \in Partners, t \in Templates,
       r \in Answers, u \in Updates :
      LET a == [customer_id |-> c[1], customer_company |-> c[2],
                partner_name |-> p[1], partner_company |-> p[2],
                template_name |-> t, responses |-> r, is_update |-> u]
      IN \E failAt \in (IF failing THEN FailPoints(variant, a) ELSE {"none"}) :
           \E done \in DoneSets(a, failAt) :
              Returned(submit_survey_responses(variant, db, conn, a, failAt, done))

CheckWith(Customers, Companies, Templates, Failed) ==
    \E c \in Customers, p \in Companies, t \in Templates, failed \in Failed :
      Returned(check_existing_responses(variant, db, conn, c, p, t, failed))

UploadWith(Names, Lists, Texts) ==
    \E n \in Names, q \in Lists, d \in Texts, fail \in UploadFailures :
      Returned(upload_template(variant, db, conn, n, q, d, fail))

\* the storage handlers leave the page and its session alone
HandlerFrame == UNCHANGED <<variant, session, page>>

\* the model stores at most MaxSubmissions submissions
SubmissionsLeft == Cardinality(conn.submissions) < MaxSubmissions

Init ==
    /\ variant \in Variants
    /\ db = SeedTables
    /\ conn = SeedTables
    /\ call = NoCall
    /\ session = NoSession
    /\ page = NoPage

-----------------------------------------------------------------------------
(* Spec: the storage handlers with every statement allowed to fail.        *)

Submit ==
    /\ SubmissionsLeft
    /\ SubmitWith({<<"c1", "Acme Co">>, <<"c2", "Apex">>},
                  {<<"alice", "P1">>},
                  {"Intake", "Ghost"},
                  {OnlyEmptyAnswers, MixedAnswers},
                  BOOLEAN,
                  TRUE)
    /\ HandlerFrame

CheckExisting ==
    /\ CheckWith({"c1"},
                 {"P1"},
                 {"Intake"},
                 BOOLEAN)
    /\ HandlerFrame

UploadTemplate ==
    /\ UploadWith({"Intake"},
                  {IntakeQuestions, ChainQuestions},
                  {"first"})
    /\ HandlerFrame

Next == Submit \/ CheckExisting \/ UploadTemplate

Spec == Init /\ [][Next]_vars

-----------------------------------------------------------------------------
(* SpecLineage: successful submissions by several partners for several     *)
(* customers, and the existing-response lookup.                            *)

LineageSubmit ==
    /\ SubmissionsLeft
    /\ SubmitWith({<<"c1", "Acme Co">>, <<"c2", "Apex">>},
                  {<<"alice", "P1">>, <<"bob", "P1">>, <<"alice", "P2">>},
                  {"Intake"},
                  {OnlyEmptyAnswers, MixedAnswers, OtherAnswers},
                  {FALSE},
                  FALSE)
    /\ HandlerFrame

LineageCheck ==
    /\ CheckWith({"c1"},
                 {"P1"},
                 {"Intake"},
                 BOOLEAN)
    /\ HandlerFrame

LineageUpload ==
    /\ UploadWith({"Intake"},
                  {IntakeQuestions},
                  {"first"})
    /\ HandlerFrame

NextLineage == LineageSubmit \/ LineageCheck \/ LineageUpload

SpecLineage == Init /\ [][NextLineage]_vars

-----------------------------------------------------------------------------
(* SpecUpdate: one customer, partners of the same and of another company,  *)
(* submitting with and without is_update.                                  *)

UpdateSubmit ==
    /\ SubmissionsLeft
    /\ SubmitWith({<<"c1", "Acme Co">>},
                  {<<"alice", "P1">>, <<"bob", "P1">>, <<"alice", "P2">>},
                  {"Intake"},
                  {MixedAnswers},
                  BOOLEAN,
                  FALSE)
    /\ HandlerFrame

UpdateCheck ==
    /\ CheckWith({"c1"},
                 {"P1"},
                 {"Intake"},
                 BOOLEAN)
    /\ HandlerFrame

UpdateUpload ==
    /\ UploadWith({"Intake"},
                  {IntakeQuestions},
                  {"first"})
    /\ HandlerFrame

NextUpdate == UpdateSubmit \/ UpdateCheck \/ UpdateUpload

SpecUpdate == Init /\ [][NextUpdate]_vars

-----------------------------------------------------------------------------
(* SpecShow: should_show_question applied to a question and an answer dict. *)

\* dependencies as parse_survey_file attaches them: none, on any truthy
\* answer, or on an expected value (a non-empty string)
ShowQuestions ==
    {Question("Details", "text", "Details", "General", FALSE, d[1], d[2]) :
        d \in { <<Absent, Absent>>, <<"Name", Absent>>, <<"Name", "Other">>,
                <<"Name", "1">>, <<"Name", "0">>, <<"Name", "None">> }}

\* answers a session can hold: typed or pre-filled strings, slider integers, None
ShowValues ==
    { PyStr(""), PyStr("Other"), PyStr("Acme"), PyStr("0"), PyStr("1"),
      PyInt("0"), PyInt("1"), PyNone }

ShowAnswers ==
    UNION {[keys -> ShowValues] : keys \in SUBSET {"Name", "Details"}}

ShowQuestion ==
    /\ \E q \in ShowQuestions, r \in ShowAnswers :
         call' = [op |-> "show", question |-> q, responses |-> r,
                  shown |-> should_show_question(q, r)]
    /\ UNCHANGED <<variant, db, conn, session, page>>

NextShow == ShowQuestion

SpecShow == Init /\ [][NextShow]_vars

-----------------------------------------------------------------------------
(* The partner page.  One run of render_partner_mode follows one browser   *)
(* event: a widget of the page changed, the submit button was clicked, or  *)
(* the page was merely run again.                                          *)

\* the texts of the first missing questions the error message names
MaxCited == 3

Min(a, b) == IF a <= b THEN a ELSE b

\* dict.get(key, default)
DictGet(d, key, default) == IF key \in DOMAIN d THEN d[key] ELSE default

\* the strings of digits the model's answers can hold (str.isdigit)
DigitStrings == {"0", "1", "2"}

\* st.slider raises when the value it is to start at lies outside
\* [min_value, max_value]; the value is computed as in render_question
SliderRaises(question, existing_value) ==
    /\ question.type = "rating"
    /\ Truthy(existing_value) /\ Str(existing_value) \in DigitStrings
    /\ \A n \in question.minRating..question.maxRating :
          ToString(n) # Str(existing_value)

\* the mutant renders a matrix question without rows like a text question
render_question_unchecked(question, existing_value, event) ==
    IF event.kind = "edit" /\ event.key = question.id
    THEN event.value
    ELSE IF question.type = "rating"
    THEN IF Truthy(existing_value) /\ Str(existing_value) \in DigitStrings
         THEN PyInt(Str(existing_value))
         ELSE PyInt(ToString(question.minRating))
    ELSE existing_value

\* render_question(question): the value the widget returns.  A text widget
\* returns what the session holds for the question unless the user typed
\* something else in this run.  A matrix question without rows or without
\* columns has no widget.
render_question(question, existing_value, event) ==
    IF /\ question.type = "matrix"
       /\ \/ "matrixRows" \notin DOMAIN question \/ question.matrixRows = << >>
          \/ "matrixCols" \notin DOMAIN question \/ question.matrixCols = << >>
    THEN \* st.warning("Matrix question missing data ..."); return ""
         PyStr("")
    ELSE IF event.kind = "edit" /\ event.key = question.id
    THEN event.value
    ELSE IF question.type = "rating"
    THEN \* the slider starts at int(existing_value) when that is truthy and
         \* all digits, else at minRating; it returns an int
         IF Truthy(existing_value) /\ Str(existing_value) \in DigitStrings
         THEN PyInt(Str(existing_value))
         ELSE PyInt(ToString(question.minRating))
    ELSE existing_value

\* render_survey_form groups the questions by section, sections in the order
\* of their first question: the order in which the questions are visited
RenderOrder(questions) ==
    LET n == Len(questions)
        first(i) == CHOOSE j \in 1..n :
                        /\ questions[j].section = questions[i].section
                        /\ \A k \in 1..n :
                              questions[k].section = questions[i].section => j <= k
        before(i, j) == first(i) < first(j) \/ (first(i) = first(j) /\ i < j)
        place(i) == 1 + Cardinality({j \in 1..n : before(j, i)})
    IN [k \in 1..n |-> questions[CHOOSE i \in 1..n : place(i) = k]]

\* the loop of render_survey_form over the visited questions: a shown
\* question is rendered and its value stored, a hidden one is skipped
RECURSIVE RenderQuestions(_, _, _)
RenderQuestions(order, responses, event) ==
    IF order = << >> THEN responses
    ELSE IF /\ should_show_question(Head(order), responses)
            /\ SliderRaises(Head(order),
                            DictGet(responses, Head(order).id, PyStr("")))
    THEN \* the exception ends the run
         responses
    ELSE LET question == Head(order)
             stored == IF should_show_question(question, responses)
                       THEN DictSet(responses, question.id,
                                render_question(question,
                                    DictGet(responses, question.id, PyStr("")),
                                    event))
                       ELSE responses
         IN RenderQuestions(Tail(order), stored, event)

render_survey_form(survey_config, responses, event) ==
    RenderQuestions(RenderOrder(survey_config.questions), responses, event)

\* a slider raises while the form is rendered: some question is shown and
\* refused by its slider after the questions before it were rendered
FormRaises(survey_config, responses, event) ==
    LET order == RenderOrder(survey_config.questions)
    IN \E i \in 1..Len(order) :
          \E before \in {RenderQuestions(SubSeq(order, 1, i - 1), responses, event)} :
             /\ should_show_question(order[i], before)
             /\ SliderRaises(order[i], DictGet(before, order[i].id, PyStr("")))

\* missing_required: the texts of the required, shown questions whose stored
\* answer is falsy, in template order
MissingRequired(questions, responses) ==
    LET miss(q) == /\ q.required
                   /\ should_show_question(q, responses)
                   /\ ~Truthy(DictGet(responses, q.id, PyNone))
    IN [i \in 1..Len(SelectSeq(questions, miss)) |->
            SelectSeq(questions, miss)[i].question]

\* the mutant names every missing question
ErrorCited_all(missing_required) == missing_required

\* the questions named by "Please answer all required questions. Missing: ..."
ErrorCited(missing_required) ==
    SubSeq(missing_required, 1, Min(MaxCited, Len(missing_required)))

\* get_all_surveys(): the rows of templates as survey records
Surveys(T) ==
    {[survey_name |-> t.template_name, description |-> t.description,
      questions |-> t.questions] : t \in T.templates}

FreshSession ==
    [survey_responses |-> EmptyDict,
     selected_customer |-> << >>,
     selected_survey |-> << >>,
     existing_responses_checked |-> FALSE,
     is_update |-> << >>,
     \* the widgets above the form
     partner_name |-> "", partner_company |-> "",
     customer_key |-> "", survey_key |-> ""]

\* the widget the event changed
Widgets(ss, event) ==
    CASE event.kind = "name" -> [ss EXCEPT !.partner_name = event.value]
      [] event.kind = "company" -> [ss EXCEPT !.partner_company = event.value]
      [] event.kind = "customer" -> [ss EXCEPT !.customer_key = event.value]
      [] event.kind = "survey" -> [ss EXCEPT !.survey_key = event.value]
      [] OTHER -> ss

\* if selected_customer_key: st.session_state.selected_customer = ...
PickCustomer(ss, customers) ==
    IF \E c \in customers : c.customer_id = ss.customer_key
    THEN [ss EXCEPT !.selected_customer =
            << CHOOSE c \in customers : c.customer_id = ss.customer_key >>]
    ELSE ss

\* if selected_survey_name: st.session_state.selected_survey = ...
PickSurvey(ss, surveys) ==
    IF \E t \in surveys : t.survey_name = ss.survey_key
    THEN [ss EXCEPT !.selected_survey =
            << CHOOSE t \in surveys : t.survey_name = ss.survey_key >>]
    ELSE ss

\* Step 4: check for existing responses, once per session; gives the store
\* and the handler's return (NoCall when the step is skipped)
PartnerCheck(v, D, C, ss, fail) ==
    IF /\ ss.selected_customer # << >> /\ ss.selected_survey # << >>
       /\ ss.partner_company # "" /\ ~ss.existing_responses_checked
    THEN check_existing_responses(v, D, C,
            ss.selected_customer[1].customer_id, ss.partner_company,
            ss.selected_survey[1].survey_name, fail = "check")
    ELSE [db |-> D, conn |-> C, ret |-> NoCall]

\* the session after Step 4, `ret` being what PartnerCheck returned
PartnerChecked(ss, ret) ==
    IF ret.op # "check" THEN ss
    ELSE IF ret.result.has_existing
    THEN [ss EXCEPT !.survey_responses = ret.result.responses,
                    !.is_update = << TRUE >>,
                    !.existing_responses_checked = TRUE]
    ELSE [ss EXCEPT !.is_update = << FALSE >>,
                    !.existing_responses_checked = TRUE]

\* the condition of Step 5: customer, survey and both partner fields are set
FormReady(ss) ==
    /\ ss.selected_customer # << >> /\ ss.selected_survey # << >>
    /\ ss.partner_name # "" /\ ss.partner_company # ""

\* the mutant clears the stored answer of every question that is hidden
\* after the form was rendered
PartnerForm_clearing(ss, event) ==
    IF FormReady(ss)
    THEN [ss EXCEPT !.survey_responses =
            LET questions == ss.selected_survey[1].questions
                rendered == render_survey_form(ss.selected_survey[1], @, event)
            IN [q \in DOMAIN rendered |->
                    IF \E i \in 1..Len(questions) :
                          /\ questions[i].id = q
                          /\ ~should_show_question(questions[i], rendered)
                    THEN PyStr("") ELSE rendered[q]]]
    ELSE ss

\* Step 5: render_survey_form(st.session_state.selected_survey)
PartnerForm(ss, event) ==
    IF FormReady(ss)
    THEN [ss EXCEPT !.survey_responses =
            render_survey_form(ss.selected_survey[1], @, event)]
    ELSE ss

\* if st.button("Submit Survey")
Clicked(ss, event) == FormReady(ss) /\ event.kind = "click"

\* the validation of a click: missing_required
PartnerValidate(ss, event) ==
    IF Clicked(ss, event)
    THEN MissingRequired(ss.selected_survey[1].questions, ss.survey_responses)
    ELSE << >>

\* the arguments of the submit_survey_responses call
SubmitArgs(ss) ==
    [customer_id |-> ss.selected_customer[1].customer_id,
     customer_company |-> ss.selected_customer[1].customer_company,
     partner_name |-> ss.partner_name,
     partner_company |-> ss.partner_company,
     template_name |-> ss.selected_survey[1].survey_name,
     responses |-> ss.survey_responses,
     \* st.session_state.get('is_update', False)
     is_update |-> IF ss.is_update = << >> THEN FALSE ELSE ss.is_update[1]]

\* else: result = submit_survey_responses(...).  A statement the call does
\* not execute cannot fail.  Without a submit the store and the last return
\* stay as Step 4 left them.
PartnerSubmit(v, D, C, ret, ss, event, missing_required, fail, done) ==
    IF Clicked(ss, event) /\ missing_required = << >>
    THEN submit_survey_responses(v, D, C, SubmitArgs(ss),
            IF fail \in FailPoints(v, SubmitArgs(ss)) THEN fail ELSE "none",
            IF fail = "response" /\ done \in DoneSets(SubmitArgs(ss), fail)
            THEN done ELSE {})
    ELSE [db |-> D, conn |-> C, ret |-> ret]

\* what the run showed
PartnerPage(ss, event, missing_required) ==
    [ran |-> TRUE, form |-> FormReady(ss), raised |-> event.kind = "raised",
     clicked |-> Clicked(ss, event),
     missing_required |-> missing_required,
     cited |-> IF Clicked(ss, event) /\ missing_required # << >>
               THEN ErrorCited(missing_required) ELSE << >>,
     submitted |-> Clicked(ss, event) /\ missing_required = << >>]

\* render_partner_mode(): one run of the page after `event`, the storage
\* statement `fail` failing.  Each step's result is bound before the next
\* step reads it, as the statements of the function are.
render_partner_mode(event, fail, done) ==
    \E ss1 \in {Widgets(session, event)} :
    \* Step 2: customers = get_customers(search_term)
    \E s1 \in {ReadThrough(variant, db, conn, fail = "customers")} :
    \E ss2 \in {PickCustomer(ss1, IF fail = "customers" THEN {}
                                  ELSE s1.conn.customers)} :
    \* Step 3: surveys = get_all_surveys()
    \E s2 \in {ReadThrough(variant, s1.db, s1.conn, fail = "surveys")} :
    \E ss3 \in {PickSurvey(ss2, IF fail = "surveys" THEN {}
                                ELSE Surveys(s2.conn))} :
    \* Step 4
    \E existing \in {PartnerCheck(variant, s2.db, s2.conn, ss3, fail)} :
    \E ss4 \in {PartnerChecked(ss3, existing.ret)} :
    \* Step 5; an exception in the form ends the run before the submit button
    \E ss5 \in {PartnerForm(ss4, event)} :
    \E reached \in {IF FormReady(ss4) /\ FormRaises(ss4.selected_survey[1],
                                                     ss4.survey_responses, event)
                    THEN [event EXCEPT !.kind = "raised"] ELSE event} :
    \E missing_required \in {PartnerValidate(ss5, reached)} :
    \E submitted \in {PartnerSubmit(variant, existing.db, existing.conn,
                                    existing.ret, ss5, reached,
                                    missing_required, fail, done)} :
        /\ session' = ss5
        /\ page' = PartnerPage(ss5, reached, missing_required)
        /\ Returned(submitted)

-----------------------------------------------------------------------------
(* SpecForm: one partner session after another on a store that holds one   *)
(* uploaded template.  At most one storage statement fails in a run.       *)

\* (template name, questions) an administrator uploaded before the sessions
FormTemplates ==
    { <<"Intake", IntakeQuestions>>, <<"Chain", ChainQuestions>>,
      <<"Audit", AuditQuestions>>, <<"Score", ScoreQuestions>> }

FormNames == {"", "alice"}
FormCompanies == {"", "P1"}
FormCustomerKeys == {"", "c1"}
\* the options of the survey selectbox: "" and the names get_all_surveys gave
FormSurveyKeys == {""} \cup {t.template_name : t \in conn.templates}

\* submissions stored through the form
MaxFormSubmissions == 1

\* what a partner types into the text widget of a question
FormValues(question_id) ==
    IF question_id = "Name"
    THEN {PyStr(""), PyStr("Acme"), PyStr("Other")}
    ELSE IF question_id \in {"R1", "R2", "R3", "R4"}
    THEN {PyStr("y")}
    ELSE IF question_id = "Rate"
    THEN {PyInt("0"), PyInt("1")}
    ELSE {PyStr(""), PyStr("y")}

FormInit ==
    /\ variant \in Variants
    /\ \E t \in FormTemplates :
         LET out == upload_template(variant, SeedTables, SeedTables,
                                    t[1], t[2], "first", "none")
         IN db = out.db /\ conn = out.conn
    /\ call = NoCall
    /\ session = FreshSession
    /\ page = NoPage

\* the questions of the survey the session has selected
SessionQuestions ==
    IF session.selected_survey = << >> THEN << >>
    ELSE session.selected_survey[1].questions

QuestionIds(questions) == {questions[i].id : i \in 1..Len(questions)}

\* one run of the page
PartnerRun(event, fails) ==
    \E fail \in fails :
      \E done \in (IF fail = "response"
                   THEN SUBSET QuestionIds(SessionQuestions) ELSE {{}}) :
         render_partner_mode(event, fail, done)

EnterName ==
    /\ \E n \in FormNames :
         PartnerRun([kind |-> "name", key |-> "", value |-> n], {"none"})
    /\ UNCHANGED variant

EnterCompany ==
    /\ \E c \in FormCompanies :
         PartnerRun([kind |-> "company", key |-> "", value |-> c],
                    {"none", "check"})
    /\ UNCHANGED variant

SelectCustomer ==
    /\ \E c \in FormCustomerKeys :
         PartnerRun([kind |-> "customer", key |-> "", value |-> c],
                    {"none", "customers"})
    /\ UNCHANGED variant

SelectSurvey ==
    /\ \E t \in FormSurveyKeys :
         PartnerRun([kind |-> "survey", key |-> "", value |-> t],
                    {"none", "surveys"})
    /\ UNCHANGED variant

\* the widgets of the form exist once a run has rendered it to its end
EditAnswer ==
    /\ page.ran /\ page.form /\ ~page.raised
    /\ \E q \in QuestionIds(SessionQuestions) : \E val \in FormValues(q) :
         PartnerRun([kind |-> "edit", key |-> q, value |-> val], {"none"})
    /\ UNCHANGED variant

ClickSubmit ==
    /\ page.ran /\ page.form /\ ~page.raised
    /\ Cardinality(conn.submissions) < MaxFormSubmissions
    /\ PartnerRun([kind |-> "click", key |-> "", value |-> ""],
                  {"none", "customer", "partner", "template", "previous",
                   "submission", "refetch", "response", "commit"})
    /\ UNCHANGED variant

\* a new browser session starts with an empty st.session_state
NewSession ==
    /\ page.ran
    /\ session' = FreshSession
    /\ page' = NoPage
    /\ call' = NoCall
    /\ UNCHANGED <<variant, db, conn>>

NextForm ==
    \/ EnterName \/ EnterCompany \/ SelectCustomer \/ SelectSurvey
    \/ EditAnswer \/ ClickSubmit \/ NewSession

SpecForm == FormInit /\ [][NextForm]_vars

-----------------------------------------------------------------------------
(* Properties of the storage handlers.                                     *)

\* the tables a submit call writes rows to
WrittenRows(T) == <<T.customers, T.partners, T.submissions, T.responses>>

PartnerOf(T, s) == CHOOSE p \in T.partners : p.id = s.partner_id
TemplateOf(T, s) == CHOOSE t \in T.templates : t.id = s.template_id

\* the submissions of a (customer, partner company, template name) triple
TripleSubmissions(T, customer_id, partner_company, template_name) ==
    {s \in T.submissions :
        /\ s.customer_id = customer_id
        /\ PartnerOf(T, s).partner_company = partner_company
        /\ TemplateOf(T, s).template_name = template_name}

Latest(subs) == CHOOSE s \in subs : \A o \in subs : o.id <= s.id

\* the question id -> value mapping of a submission's response rows
AnswersOf(T, s) ==
    LET rows == {r \in T.responses : r.submission_id = s.id}
    IN [q \in {r.question_id : r \in rows} |->
           PyStr((CHOOSE r \in rows : r.question_id = q).response_value)]

\* C1: a submit call in which any step fails leaves none of the customer,
\* partner, submission or response rows it wrote, in either storage variant.
C1_FailedSubmitLeavesNoRows ==
    [][(call'.op = "submit" /\ ~call'.success)
        => /\ WrittenRows(conn') = WrittenRows(conn)
           /\ WrittenRows(db') = WrittenRows(db)]_vars

\* C2: a successful submit with is_update = true, made when the (customer,
\* partner company, template) triple already has a submission, stores the id
\* of the latest of them as previous_submission_id, whoever the partner
\* person is.
C2_PreviousIsLatestOfCompanyTriple ==
    (call.op = "submit" /\ call.success /\ call.args.is_update) =>
        LET new == CHOOSE s \in conn.submissions : s.id = call.submission_id
            earlier == {s \in TripleSubmissions(conn, call.args.customer_id,
                                   call.args.partner_company,
                                   call.args.template_name) : s.id < new.id}
        IN earlier # {} => new.previous_submission_id = Latest(earlier).id

\* C3: check_existing_responses returns exactly the question id -> value
\* mapping of the response rows of the highest-id submission of the
\* (customer, partner company, template) triple, whichever partner person
\* made it, and nothing of any earlier submission.
C3_CheckReturnsLatestAnswers ==
    (call.op = "check" /\ ~call.failed) =>
        LET subs == TripleSubmissions(conn, call.customer_id,
                                      call.partner_company, call.template_name)
        IN call.result.responses =
              IF subs = {} THEN EmptyDict ELSE AnswersOf(conn, Latest(subs))

\* a lookup that found the second of two submissions of one company made by
\* two different persons with different answers
C3_Witness ==
    /\ call.op = "check" /\ ~call.failed /\ call.result.has_existing
    /\ \E s1, s2 \in TripleSubmissions(conn, call.customer_id,
                          call.partner_company, call.template_name) :
          /\ s1.id < s2.id
          /\ s1.partner_id # s2.partner_id
          /\ "Zed" \in DOMAIN AnswersOf(conn, s1)
          /\ "Zed" \notin DOMAIN AnswersOf(conn, s2)
          /\ "Zed" \notin DOMAIN call.result.responses
          /\ call.result.responses = AnswersOf(conn, s2)

\* C4: check_existing_responses reports has_existing = false if and only if
\* the triple has no submission, also when the latest one has no response rows.
C4_NoneIffNoSubmission ==
    (call.op = "check" /\ ~call.failed) =>
        (call.result.has_existing <=>
            TripleSubmissions(conn, call.customer_id, call.partner_company,
                              call.template_name) # {})

\* C9: a submit whose template name is not stored fails with template-not-found,
\* inserts no submission or response row and leaves customers and partners
\* as they were.
C9_UnknownTemplateChangesNothing ==
    [][(call'.op = "submit" /\ ~call'.success
            /\ call'.error = "template_not_found")
        => /\ conn'.customers = conn.customers /\ conn'.partners = conn.partners
           /\ conn'.submissions = conn.submissions
           /\ conn'.responses = conn.responses
           /\ db'.customers = db.customers /\ db'.partners = db.partners]_vars

\* an answer that is neither absent (None) nor the empty string
NonEmptyAnswer(v) == v.k # "none" /\ ~(v.k = "str" /\ v.s = "")

\* C10: a successful submit stores exactly one response row for each answer
\* that is neither None nor '', and none for the others.
C10_OneRowPerNonEmptyAnswer ==
    (call.op = "submit" /\ call.success) =>
        LET rows == {r \in conn.responses : r.submission_id = call.submission_id}
            kept == {q \in DOMAIN call.args.responses :
                        NonEmptyAnswer(call.args.responses[q])}
        IN /\ {r.question_id : r \in rows} = kept
           /\ Cardinality(rows) = Cardinality(kept)

\* a submit that stored a text answer and the integer 0 and skipped an empty one
C10_Witness ==
    /\ call.op = "submit" /\ call.success
    /\ call.args.responses = MixedAnswers
    /\ Cardinality({r \in conn.responses :
                        r.submission_id = call.submission_id}) = 2

\* the dependency of a question is satisfied, stated from the answer's type
DependencyMet(question, responses) ==
    /\ question.dependsOn \in DOMAIN responses
    /\ LET v == responses[question.dependsOn]
       IN IF question.dependsOnValue # Absent
          THEN v.s = question.dependsOnValue
          ELSE v \notin {PyStr(""), PyInt("0"), PyNone}

\* C5: should_show_question is true without a dependency, false when the
\* controlling question has no entry, else compares string forms with the
\* expected value when one is set, else takes the truth value of the answer.
C5_ShouldShowContract ==
    call.op = "show" =>
        (call.shown <=> (call.question.dependsOn = Absent
                         \/ DependencyMet(call.question, call.responses)))

\* shown because the integer answer 1 has the string form of the expected "1"
C5_Witness ==
    /\ call.op = "show" /\ call.shown
    /\ call.question.dependsOnValue = "1"
    /\ "Name" \in DOMAIN call.responses
    /\ call.responses["Name"] = PyInt("1")

-----------------------------------------------------------------------------
(* Properties of the partner page, checked under SpecForm.                 *)

\* the questions of the form the last run rendered, and the answers it left
FormQuestions == session.selected_survey[1].questions
FormShown(q) == should_show_question(q, session.survey_responses)

\* C6: in every answer state a form session reaches, a question whose
\* controlling question is hidden is hidden itself.
C6_ShownOnlyUnderShownController ==
    (page.ran /\ page.form) =>
        \A i, j \in 1..Len(FormQuestions) :
            (/\ FormQuestions[i].dependsOn = FormQuestions[j].id
             /\ ~FormShown(FormQuestions[j]))
            => ~FormShown(FormQuestions[i])

\* a stored answer that is empty or absent
EmptyOrAbsent(question_id) ==
    \/ question_id \notin DOMAIN session.survey_responses
    \/ session.survey_responses[question_id] = PyNone
    \/ Str(session.survey_responses[question_id]) = ""

\* C7: a click on Submit invokes submit_survey_responses exactly when no
\* question is missing, a question being missing iff it is required, shown
\* and its stored answer is empty or absent; hidden required questions and
\* answered questions never block.
C7_SubmitIffNothingMissing ==
    (page.ran /\ page.clicked) =>
        (page.submitted <=>
            \A i \in 1..Len(FormQuestions) :
                ~(/\ FormQuestions[i].required
                  /\ FormShown(FormQuestions[i])
                  /\ EmptyOrAbsent(FormQuestions[i].id)))

\* C8 as stated: the error of a blocked submission names every missing
\* question.
C8_ErrorNamesEveryMissing ==
    (page.ran /\ page.clicked /\ ~page.submitted) =>
        page.cited = page.missing_required

\* C8 amended: the error of a blocked submission names the first three
\* missing questions in template order, and all of them when there are at
\* most three.
C8_ErrorNamesFirstThree ==
    (page.ran /\ page.clicked /\ ~page.submitted) =>
        /\ Len(page.cited) = Min(3, Len(page.missing_required))
        /\ \A i \in 1..Len(page.cited) : page.cited[i] = page.missing_required[i]

\* a blocked submission with more missing questions than the error names
C8_Witness ==
    /\ page.ran /\ page.clicked /\ ~page.submitted
    /\ Len(page.missing_required) = 4
    /\ Len(page.cited) = 3

-----------------------------------------------------------------------------
(* SpecShared: app.py's sessions share the one connection that             *)
(* get_db_connection caches, and with it one transaction.  The statements  *)
(* of the sessions' submit calls interleave one at a time; `call` maps a   *)
(* session to the frame of its submit call.  A failing statement and the   *)
(* rollback of its handler are one step.                                   *)

Sessions == {"s1", "s2"}

\* the partner a session submits for and the answers it submits
SharedPartner(p) == IF p = "s1" THEN <<"alice", "P1">> ELSE <<"bob", "P2">>
SharedAnswers(p) == IF p = "s1" THEN MixedAnswers ELSE OtherAnswers

SharedArgs(p, is_update) ==
    [customer_id |-> "c1", customer_company |-> "Acme Co",
     partner_name |-> SharedPartner(p)[1], partner_company |-> SharedPartner(p)[2],
     template_name |-> "Intake", responses |-> SharedAnswers(p),
     is_update |-> is_update]

\* the locals of a submit call: the statement it is at, what it has read and
\* the rows it has written
IdleFrame(p) ==
    [pc |-> "idle", a |-> SharedArgs(p, FALSE), partner_id |-> Null,
     template_id |-> Null, questions |-> << >>, previous |-> Null,
     submission_id |-> Null, written |-> {}, todo |-> << >>, ret |-> ""]

InFlight(f) == f.pc \notin {"idle", "done"}

\* the id the submissions sequence hands out: a sequence does not go back
\* when a transaction is rolled back
SharedNextSubmissionId ==
    Max({s.id : s \in conn.submissions \cup db.submissions}
        \cup {call[p].submission_id : p \in Sessions}) + 1

SharedInit ==
    /\ variant = "direct"
    /\ db = UpsertTemplate(SeedTables, "Intake", IntakeQuestions, "first")
    /\ conn = db
    /\ call = [p \in Sessions |-> IdleFrame(p)]
    /\ session = NoSession
    /\ page = NoPage

SharedFrame == UNCHANGED <<variant, session, page>>

\* a session calls submit_survey_responses, once; the second session's
\* call is an update
SharedBegin ==
    /\ \E p \in Sessions :
          /\ call[p].pc = "idle"
          /\ call' = [call EXCEPT ![p] =
                        [IdleFrame(p) EXCEPT !.pc = "customer",
                                             !.a = SharedArgs(p, p = "s2")]]
    /\ UNCHANGED <<db, conn>>
    /\ SharedFrame

\* the statement a frame is at, executed on the shared connection: the
\* connection's tables and the frame after it
SharedExecute(C, f, id) ==
    CASE f.pc = "customer" ->
            [conn |-> UpsertCustomer(C, f.a.customer_id, f.a.customer_company),
             frame |-> [f EXCEPT !.pc = "partner"]]
      [] f.pc = "partner" ->
            LET T == UpsertPartner(C, f.a.partner_name, f.a.partner_company)
            IN [conn |-> T,
                frame |-> [f EXCEPT !.pc = "template",
                              !.partner_id = PartnerId(T, f.a.partner_name,
                                                       f.a.partner_company)]]
      [] f.pc = "template" ->
            LET t == CHOOSE t \in TemplateByName(C, f.a.template_name) : TRUE
            IN [conn |-> C,
                frame |-> [f EXCEPT !.pc = IF f.a.is_update THEN "previous"
                                           ELSE "submission",
                              !.template_id = t.id, !.questions = t.questions]]
      [] f.pc = "previous" ->
            [conn |-> C,
             frame |-> [f EXCEPT !.pc = "submission",
                           !.previous = PreviousSubmissionId(C, f.a.customer_id,
                               f.a.partner_name, f.a.partner_company, f.template_id)]]
      [] f.pc = "submission" ->
            LET todo == ItemsOrder(StoredKeys(f.a.responses))
            IN [conn |-> [C EXCEPT !.submissions = @ \cup
                            {[id |-> id, customer_id |-> f.a.customer_id,
                              partner_id |-> f.partner_id,
                              template_id |-> f.template_id,
                              is_update |-> f.a.is_update,
                              previous_submission_id |-> f.previous]}],
                frame |-> [f EXCEPT !.pc = IF todo = << >> THEN "commit"
                                           ELSE "response",
                              !.submission_id = id, !.todo = todo]]
      [] OTHER ->
            [conn |-> InsertResponses(C, f.submission_id, f.a.responses,
                                      f.questions, << Head(f.todo) >>),
             frame |-> [f EXCEPT !.pc = IF Tail(f.todo) = << >> THEN "commit"
                                        ELSE "response",
                           !.written = @ \cup {Head(f.todo)},
                           !.todo = Tail(f.todo)]]

\* a session's call executes its next statement
SharedStatement ==
    /\ \E p \in Sessions :
          /\ InFlight(call[p]) /\ call[p].pc # "commit"
          /\ call[p].pc = "template" =>
                TemplateByName(conn, call[p].a.template_name) # {}
          /\ \E out \in {SharedExecute(conn, call[p], SharedNextSubmissionId)} :
                /\ conn' = out.conn
                /\ call' = [call EXCEPT ![p] = out.frame]
    /\ UNCHANGED db
    /\ SharedFrame

\* conn.commit() and the successful return
SharedCommit ==
    /\ \E p \in Sessions :
          /\ call[p].pc = "commit"
          /\ call' = [call EXCEPT ![p] = [@ EXCEPT !.pc = "done", !.ret = "success"]]
    /\ db' = conn
    /\ UNCHANGED conn
    /\ SharedFrame

\* the statement a call is at raises (or the template is not found):
\* conn.rollback() and the failed return
SharedFail ==
    /\ \E p \in Sessions :
          /\ InFlight(call[p])
          /\ call' = [call EXCEPT ![p] = [@ EXCEPT !.pc = "done", !.ret = "failed"]]
    /\ conn' = db
    /\ UNCHANGED db
    /\ SharedFrame

\* a read of another session through execute_query fails: conn.rollback()
SharedRead ==
    /\ \E out \in {ReadThrough(variant, db, conn, TRUE)} :
          /\ db' = out.db
          /\ conn' = out.conn
    /\ UNCHANGED call
    /\ SharedFrame

\* another session uploads a template
SharedUpload ==
    /\ \E fail \in {"none", "raise"} :
       \E out \in {upload_template(variant, db, conn, "Intake", ChainQuestions,
                                   "second", fail)} :
          /\ db' = out.db
          /\ conn' = out.conn
    /\ UNCHANGED call
    /\ SharedFrame

NextShared ==
    \/ SharedBegin \/ SharedStatement \/ SharedCommit
    \/ SharedFail \/ SharedRead \/ SharedUpload

SpecShared == SharedInit /\ [][NextShared]_vars

-----------------------------------------------------------------------------
(* SpecExport: export_all_submissions over stores that hold submissions    *)
(* with and without responses.                                             *)

\* the response columns of a row of a submission that has no response
NoResponse ==
    [id |-> Null, question_id |-> Absent, question_text |-> Absent,
     response_value |-> Absent, response_type |-> Absent, section_name |-> Absent]

\* one row of the export query: a submission with its customer, partner and
\* template, and one response (or null response columns); `index` is the
\* row's label in the DataFrame
ExportRow(s, c, p, t, r) ==
    [index |-> <<s.id, r.id>>, submission_uuid |-> s.id,
     customer_id |-> s.customer_id, customer_company |-> c.customer_company,
     partner_name |-> p.partner_name, partner_company |-> p.partner_company,
     survey_name |-> t.template_name, is_update |-> s.is_update,
     question_id |-> r.question_id, question_text |-> r.question_text,
     response_value |-> r.response_value, response_type |-> r.response_type,
     section_name |-> r.section_name]

\* the mutant joins the responses with JOIN instead of LEFT JOIN
ExportRows_inner(T) ==
    {ExportRow(x[1], x[2], x[3], x[4], x[5]) :
        x \in {y \in T.submissions \X T.customers \X T.partners \X T.templates
                        \X T.responses :
                  /\ y[1].customer_id = y[2].customer_id
                  /\ y[1].partner_id = y[3].id
                  /\ y[1].template_id = y[4].id
                  /\ y[5].submission_id = y[1].id}}

\* FROM submissions s JOIN customers c JOIN partners p JOIN templates t
\* LEFT JOIN responses r ON s.id = r.submission_id
ExportRows(T) ==
    ExportRows_inner(T) \cup
    {ExportRow(x[1], x[2], x[3], x[4], NoResponse) :
        x \in {y \in T.submissions \X T.customers \X T.partners \X T.templates :
                  /\ y[1].customer_id = y[2].customer_id
                  /\ y[1].partner_id = y[3].id
                  /\ y[1].template_id = y[4].id
                  /\ ~\E r \in T.responses : r.submission_id = y[1].id}}

\* the columns the Summary sheet groups by
SummaryKey(row) ==
    [submission_uuid |-> row.submission_uuid, customer_id |-> row.customer_id,
     customer_company |-> row.customer_company,
     partner_name |-> row.partner_name, partner_company |-> row.partner_company,
     survey_name |-> row.survey_name, is_update |-> row.is_update]

\* df.groupby([...]).size().reset_index(name='response_count')
SummarySheet(df) ==
    {[key |-> k, response_count |->
                    Cardinality({row \in df : SummaryKey(row) = k})] :
        k \in {SummaryKey(row) : row \in df}}

\* df[df['response_value'].notna()]
DetailedSheet(df) == {row \in df : row.response_value # Absent}

\* what export_all_submissions returns for the rows it read: None, or the
\* workbook with its two sheets
ExportResult(df) ==
    IF df = {} THEN [sheets |-> FALSE, Summary |-> {}, Detailed |-> {}]
    ELSE [sheets |-> TRUE, Summary |-> SummarySheet(df),
          Detailed |-> DetailedSheet(df)]

\* export_all_submissions(); `failed`: the query fails
export_all_submissions(v, D, C, failed) ==
    LET after == ReadThrough(v, D, C, failed)
        df == IF failed THEN {} ELSE ExportRows(C)
    IN [db |-> after.db, conn |-> after.conn,
        ret |-> [op |-> "export", failed |-> failed, result |-> ExportResult(df)]]

ExportSubmit ==
    /\ SubmissionsLeft
    /\ SubmitWith({<<"c1", "Acme Co">>, <<"c2", "Apex">>},
                  {<<"alice", "P1">>},
                  {"Intake"},
                  {OnlyEmptyAnswers, MixedAnswers},
                  {FALSE},
                  TRUE)
    /\ HandlerFrame

ExportUpload ==
    /\ UploadWith({"Intake"},
                  {IntakeQuestions},
                  {"first"})
    /\ HandlerFrame

ExportAll ==
    /\ \E failed \in BOOLEAN :
          Returned(export_all_submissions(variant, db, conn, failed))
    /\ HandlerFrame

NextExport == ExportSubmit \/ ExportUpload \/ ExportAll

SpecExport == Init /\ [][NextExport]_vars

-----------------------------------------------------------------------------
(* SpecCodec: the answers of multi-select and matrix questions as strings. *)
(* A text is a sequence of one-character strings.  Each behaviour renders   *)
(* one question once.                                                      *)

\* longest cell of the uploaded file that is tried
MaxCellLen == 3

\* the texts over an alphabet, up to MaxCellLen characters
Texts(chars) == UNION {[1..n -> chars] : n \in 0..MaxCellLen}

\* sep.join(parts)
RECURSIVE str_join(_, _)
str_join(parts, sep) ==
    IF parts = << >> THEN << >>
    ELSE IF Len(parts) = 1 THEN parts[1]
    ELSE parts[1] \o << sep >> \o str_join(Tail(parts), sep)

\* text.split(sep)
RECURSIVE str_split(_, _)
str_split(text, sep) ==
    LET at == {i \in 1..Len(text) : text[i] = sep}
        i == CHOOSE i \in at : \A j \in at : i <= j
    IN IF at = {} THEN << text >>
       ELSE << SubSeq(text, 1, i - 1) >>
                \o str_split(SubSeq(text, i + 1, Len(text)), sep)

\* text.strip()
str_strip(text) ==
    LET keep == {i \in 1..Len(text) : text[i] # " "}
    IN IF keep = {} THEN << >>
       ELSE SubSeq(text, CHOOSE i \in keep : \A j \in keep : i <= j, Max(keep))

\* parse_survey_file: a cell split on the first of the separators `seps` it
\* contains (on the last one if it contains none), every token stripped,
\* empty tokens dropped
SplitCell(text, seps) ==
    LET present == {k \in 1..Len(seps) : \E i \in 1..Len(text) : text[i] = seps[k]}
        sep == IF present = {} THEN seps[Len(seps)]
               ELSE seps[CHOOSE k \in present : \A j \in present : k <= j]
        parts == str_split(text, sep)
        stripped == [k \in 1..Len(parts) |-> str_strip(parts[k])]
    IN SelectSeq(stripped, LAMBDA t : t # << >>)

\* the multi-select widget's return value: '|'.join(selected) if selected else ""
multiselect_value(selected) ==
    IF selected # << >> THEN str_join(selected, "|") ELSE << >>

\* the mutant splits whatever the session holds, the empty string too
multiselect_default_split(existing_value) == str_split(existing_value, "|")

\* the multi-select widget's default: existing_value.split('|') if existing_value else []
multiselect_default(existing_value) ==
    IF existing_value # << >> THEN str_split(existing_value, "|") ELSE << >>

\* a string inside json.dumps' output: quotes and backslashes are escaped
RECURSIVE JsonEscape(_)
JsonEscape(text) ==
    IF text = << >> THEN << >>
    ELSE (IF Head(text) \in {"\"", "\\"} THEN << "\\", Head(text) >>
          ELSE << Head(text) >>) \o JsonEscape(Tail(text))

\* json.dumps(d) for a dict of strings whose items, in insertion order, are `items`
json_dumps(items) ==
    << "{" >>
    \o str_join([k \in 1..Len(items) |->
                    << "\"" >> \o JsonEscape(items[k][1]) \o << "\"", ":", " ", "\"" >>
                    \o JsonEscape(items[k][2]) \o << "\"" >>], ",")
    \o << "}" >>

\* the JSON string that starts after the quote before position i: its value
\* and the position after its closing quote (0: malformed)
RECURSIVE JsonReadString(_, _, _)
JsonReadString(text, i, acc) ==
    IF i > Len(text) THEN [value |-> acc, next |-> 0]
    ELSE IF text[i] = "\"" THEN [value |-> acc, next |-> i + 1]
    ELSE IF text[i] = "\\"
         THEN IF i + 1 <= Len(text) /\ text[i + 1] \in {"\"", "\\"}
              THEN JsonReadString(text, i + 2, Append(acc, text[i + 1]))
              ELSE [value |-> acc, next |-> 0]
    ELSE JsonReadString(text, i + 1, Append(acc, text[i]))

\* the members of a JSON object of strings from position i on, added to the
\* dict d (a later key replaces an earlier one); ok: the object ends the text
RECURSIVE JsonReadMembers(_, _, _)
JsonReadMembers(text, i, d) ==
    LET skip(j) == IF \E k \in j..Len(text) : text[k] # " "
                   THEN CHOOSE k \in j..Len(text) :
                            text[k] # " " /\ \A m \in j..(k - 1) : text[m] = " "
                   ELSE Len(text) + 1
        is(j, c) == j >= 1 /\ j <= Len(text) /\ text[j] = c
        ks == skip(i)
        key == JsonReadString(text, ks + 1, << >>)
        colon == IF key.next = 0 THEN 0 ELSE skip(key.next)
        vs == skip(colon + 1)
        val == JsonReadString(text, vs + 1, << >>)
        after == IF val.next = 0 THEN 0 ELSE skip(val.next)
        d1 == [x \in DOMAIN d \cup {key.value} |->
                  IF x = key.value THEN val.value ELSE d[x]]
    IN IF ~(is(ks, "\"") /\ key.next # 0 /\ is(colon, ":")
            /\ is(vs, "\"") /\ val.next # 0)
       THEN [ok |-> FALSE, dict |-> d]
       ELSE IF is(after, "}") THEN [ok |-> after = Len(text), dict |-> d1]
       ELSE IF is(after, ",") THEN JsonReadMembers(text, after + 1, d1)
       ELSE [ok |-> FALSE, dict |-> d]

\* json.loads(text) inside try/except, for the texts json.dumps writes for a
\* dict of strings: the dict, or the empty dict when the text is not such an
\* object
json_loads(text) ==
    LET d0 == [x \in {} |-> << >>]
        parsed == JsonReadMembers(text, 2, d0)
    IN IF Len(text) >= 2 /\ text[1] = "{" /\ parsed.ok THEN parsed.dict ELSE d0

\* the loops over the rows and columns of a matrix question: the items of
\* matrix_responses in insertion order; `cells` are the <<row, column>>
\* positions whose radio button is selected
MatrixItems(matrix_rows, matrix_cols, cells) ==
    LET chosen(r) == {c \in 1..Len(matrix_cols) : <<r, c>> \in cells}
        named(r) == {o \in 1..Len(matrix_rows) :
                        matrix_rows[o] = matrix_rows[r] /\ chosen(o) # {}}
        firsts == SelectSeq([r \in 1..Len(matrix_rows) |-> r],
                            LAMBDA r : named(r) # {} /\ \A o \in named(r) : r <= o)
    IN [k \in 1..Len(firsts) |->
          << matrix_rows[firsts[k]],
             matrix_cols[Max(chosen(Max(named(firsts[k]))))] >>]

\* the matrix widget's existing_matrix: json.loads of a non-empty existing
\* value, the empty dict otherwise
matrix_existing(existing_value) ==
    IF existing_value # << >> THEN json_loads(existing_value)
    ELSE [x \in {} |-> << >>]

\* the mutant serializes matrix_responses also when it is empty
matrix_value_dumps(matrix_rows, matrix_cols, cells) ==
    IF matrix_rows = << >> \/ matrix_cols = << >> THEN << >>
    ELSE json_dumps(MatrixItems(matrix_rows, matrix_cols, cells))

\* the matrix widget's return value
matrix_value(matrix_rows, matrix_cols, cells) ==
    LET matrix_responses == MatrixItems(matrix_rows, matrix_cols, cells)
    IN IF matrix_rows = << >> \/ matrix_cols = << >> THEN << >>
       ELSE IF matrix_responses # << >> THEN json_dumps(matrix_responses)
       ELSE << >>

\* a text as the string the session holds
RECURSIVE TextString(_)
TextString(text) ==
    IF text = << >> THEN "" ELSE Head(text) \o TextString(Tail(text))

CodecFrame == UNCHANGED <<variant, db, conn, session, page>>

\* a multi-select question is rendered: its Options cell, the options the
\* user selected (in either order), the value returned and the default the
\* next run derives from that value
RenderMultiSelect ==
    /\ call = NoCall
    /\ \E cell \in Texts({"a", "b", " ", "|", ";", ","}) :
       \E options \in {SplitCell(cell, << "|", ";", "," >>)} :
       \E picked \in SUBSET (1..Len(options)), backwards \in BOOLEAN :
       \E order \in {SelectSeq([k \in 1..Len(options) |->
                                   IF backwards THEN Len(options) + 1 - k ELSE k],
                               LAMBDA k : k \in picked)} :
       \E selected \in {[k \in 1..Len(order) |-> options[order[k]]]} :
       \E value \in {multiselect_value(selected)} :
          call' = [op |-> "multiselect", options |-> options,
                   selected |-> selected, value |-> value,
                   default |-> multiselect_default(value)]
    /\ CodecFrame

\* a matrix question is rendered: its MatrixRows and MatrixCols cells, the
\* selected radio buttons, the value returned, what the next run loads from
\* that value, and what validation finds missing when the question is required
RenderMatrix ==
    /\ call = NoCall
    /\ \E rowcell \in Texts({"r", "\"", "\\", "|"}), colcell \in Texts({"x", "\"", ","}) :
       \E matrix_rows \in {SplitCell(rowcell, << "|", "," >>)} :
       \E matrix_cols \in {SplitCell(colcell, << "|", "," >>)} :
       \E cells \in SUBSET ((1..Len(matrix_rows)) \X (1..Len(matrix_cols))) :
       \E value \in {matrix_value(matrix_rows, matrix_cols, cells)} :
          call' = [op |-> "matrix", matrix_rows |-> matrix_rows,
                   matrix_cols |-> matrix_cols, cells |-> cells,
                   items |-> MatrixItems(matrix_rows, matrix_cols, cells),
                   value |-> value,
                   existing_matrix |-> matrix_existing(value),
                   missing_required |->
                       MissingRequired(
                           << Question("Grid", "matrix", "Grid", "General",
                                       TRUE, Absent, Absent) >>,
                           [q \in {"Grid"} |-> PyStr(TextString(value))])]
    /\ CodecFrame

NextCodec == RenderMultiSelect \/ RenderMatrix

SpecCodec == Init /\ [][NextCodec]_vars

-----------------------------------------------------------------------------
(* SpecRating: partner sessions on a template whose rating question is     *)
(* shown under a controlling answer and whose upper bound an administrator *)
(* lowers by uploading the template again.                                 *)

\* submissions stored through the form
MaxRatingSubmissions == 2

StarsQuestions(maxRating) ==
    << Question("Uses", "text", "Uses", "General", FALSE, Absent, Absent),
       [RatingQuestion("Rate", "Rating", "General", TRUE, 0, maxRating)
            EXCEPT !.dependsOn = "Uses"] >>

\* the session of a partner who has entered name and company and selected
\* the customer
StarsSession ==
    [FreshSession EXCEPT !.partner_name = "alice", !.partner_company = "P1",
                         !.customer_key = "c1",
                         !.selected_customer =
                             << [customer_id |-> "c1",
                                 customer_company |-> "Acme Co"] >>]

RatingInit ==
    /\ variant \in Variants
    /\ \E out \in {upload_template(variant, SeedTables, SeedTables, "Stars",
                                   StarsQuestions(2), "first", "none")} :
          db = out.db /\ conn = out.conn
    /\ call = NoCall
    /\ session = StarsSession
    /\ page = PartnerPage(StarsSession,
                          [kind |-> "customer", key |-> "", value |-> "c1"], << >>)

\* another partner session gets as far
RatingSession ==
    /\ session' = StarsSession
    /\ page' = PartnerPage(StarsSession,
                           [kind |-> "customer", key |-> "", value |-> "c1"], << >>)
    /\ call' = NoCall
    /\ UNCHANGED <<variant, db, conn>>

RatingUpload ==
    /\ UploadWith({"Stars"},
                  {StarsQuestions(1)},
                  {"second"})
    /\ HandlerFrame

\* a slider gives an integer between its bounds
RatingEdit ==
    /\ page.ran /\ page.form /\ ~page.raised
    /\ \E i \in 1..Len(SessionQuestions) :
       \E q \in {SessionQuestions[i]} :
       \E val \in (IF q.type = "rating"
                   THEN {PyInt(ToString(n)) : n \in q.minRating..q.maxRating}
                   ELSE FormValues(q.id)) :
         PartnerRun([kind |-> "edit", key |-> q.id, value |-> val], {"none"})
    /\ UNCHANGED variant

RatingClick ==
    /\ page.ran /\ page.form /\ ~page.raised
    /\ Cardinality(conn.submissions) < MaxRatingSubmissions
    /\ PartnerRun([kind |-> "click", key |-> "", value |-> ""], {"none"})
    /\ UNCHANGED variant

NextRating ==
    \/ SelectSurvey \/ RatingEdit \/ RatingClick
    \/ RatingSession \/ RatingUpload

SpecRating == RatingInit /\ [][NextRating]_vars

-----------------------------------------------------------------------------
(* SpecRefetch: two app_v1.py sessions of the same partner submit for the  *)
(* same template, each statement applied on its own, the statements of the *)
(* two calls interleaving one at a time.  A frame keeps the locals of a    *)
(* call and, for the properties, the id of the submission row it inserted  *)
(* (`inserted`) and the ids of the response rows it wrote (`rows`).        *)

RefetchFrame(p, customer) ==
    [pc |-> "idle",
     a |-> [customer_id |-> customer[1], customer_company |-> customer[2],
            partner_name |-> "alice", partner_company |-> "P1",
            template_name |-> "Intake",
            responses |-> IF p = "s1" THEN MixedAnswers ELSE OtherAnswers,
            is_update |-> FALSE],
     partner_id |-> Null, template_id |-> Null, questions |-> << >>,
     inserted |-> Null, submission_id |-> Null, rows |-> {}, todo |-> << >>,
     ret |-> ""]

RefetchInit ==
    /\ variant = "helper"
    /\ db = UpsertTemplate(SeedTables, "Intake", IntakeQuestions, "first")
    /\ conn = db
    /\ call = [p \in Sessions |-> RefetchFrame(p, <<"c1", "Acme Co">>)]
    /\ session = NoSession
    /\ page = NoPage

\* a session calls submit_survey_responses, once
RefetchBegin ==
    /\ \E p \in Sessions :
       \E customer \in (IF p = "s1" THEN {<<"c1", "Acme Co">>}
                        ELSE {<<"c1", "Acme Co">>, <<"c2", "Apex">>}) :
          /\ call[p].pc = "idle"
          /\ call' = [call EXCEPT ![p] =
                        [RefetchFrame(p, customer) EXCEPT !.pc = "customer"]]
    /\ UNCHANGED <<db, conn>>
    /\ SharedFrame

\* the statement a frame is at, applied to the tables C: the tables and the
\* frame after it
RefetchExecute(C, f) ==
    CASE f.pc = "customer" ->
            [conn |-> UpsertCustomer(C, f.a.customer_id, f.a.customer_company),
             frame |-> [f EXCEPT !.pc = "partner"]]
      [] f.pc = "partner" ->
            LET T == UpsertPartner(C, f.a.partner_name, f.a.partner_company)
            IN [conn |-> T,
                frame |-> [f EXCEPT !.pc = "template",
                              !.partner_id = PartnerId(T, f.a.partner_name,
                                                       f.a.partner_company)]]
      [] f.pc = "template" ->
            LET t == CHOOSE t \in TemplateByName(C, f.a.template_name) : TRUE
            IN [conn |-> C,
                frame |-> [f EXCEPT !.pc = "submission",
                              !.template_id = t.id, !.questions = t.questions]]
      [] f.pc = "submission" ->
            [conn |-> InsertSubmission(C, f.a.customer_id, f.partner_id,
                                       f.template_id, f.a.is_update, Null),
             frame |-> [f EXCEPT !.pc = "refetch",
                           !.inserted = NextId(C.submissions)]]
      [] f.pc = "refetch" ->
            LET fetched == FetchedSubmission(C, "helper", f.partner_id, f.template_id)
                todo == ItemsOrder(StoredKeys(f.a.responses))
            IN IF fetched.customer_id # f.a.customer_id
               THEN \* raise Exception("Customer ID mismatch ...")
                    [conn |-> C,
                     frame |-> [f EXCEPT !.pc = "done", !.ret = "mismatch"]]
               ELSE [conn |-> C,
                     frame |-> [f EXCEPT !.pc = IF todo = << >> THEN "done"
                                                ELSE "response",
                                   !.ret = IF todo = << >> THEN "success" ELSE "",
                                   !.submission_id = fetched.id, !.todo = todo]]
      [] OTHER ->
            LET T == InsertResponses(C, f.submission_id, f.a.responses,
                                     f.questions, << Head(f.todo) >>)
            IN [conn |-> T,
                frame |-> [f EXCEPT !.pc = IF Tail(f.todo) = << >> THEN "done"
                                           ELSE "response",
                              !.ret = IF Tail(f.todo) = << >> THEN "success" ELSE "",
                              !.rows = @ \cup {r.id : r \in T.responses \ C.responses},
                              !.todo = Tail(f.todo)]]

\* a session's call executes its next statement
RefetchStatement ==
    /\ \E p \in Sessions :
          /\ InFlight(call[p])
          /\ \E out \in {RefetchExecute(conn, call[p])} :
                /\ conn' = out.conn
                /\ db' = out.conn
                /\ call' = [call EXCEPT ![p] = out.frame]
    /\ SharedFrame

NextRefetch == RefetchBegin \/ RefetchStatement

SpecRefetch == RefetchInit /\ [][NextRefetch]_vars

-----------------------------------------------------------------------------
(* SpecGrid: partner sessions on a template whose matrix question lost its *)
(* rows in a second upload, after bob of P1 had answered it.  The sections *)
(* are visited in the order A, B, C; each question depends on the next.    *)

GridQuestions(matrix_rows) ==
    << [matrixRows |-> matrix_rows, matrixCols |-> << << "x" >> >>]
           @@ Question("Grid", "matrix", "Grid", "A", TRUE, "Rate", Absent),
       [RatingQuestion("Rate", "Rating", "B", FALSE, 1, 2)
            EXCEPT !.dependsOn = "Uses"],
       Question("Uses", "text", "Uses", "C", FALSE, Absent, Absent) >>

GridInit ==
    /\ variant \in Variants
    /\ \E first \in {upload_template(variant, SeedTables, SeedTables, "Grid",
                                     GridQuestions(<< << "r" >> >>), "first", "none")} :
       \E answered \in {submit_survey_responses(variant, first.db, first.conn,
                           [customer_id |-> "c1", customer_company |-> "Acme Co",
                            partner_name |-> "bob", partner_company |-> "P1",
                            template_name |-> "Grid",
                            responses |-> [q \in {"Grid"} |-> PyStr("{\"r\": \"x\"}")],
                            is_update |-> FALSE], "none", {})} :
       \E out \in {upload_template(variant, answered.db, answered.conn, "Grid",
                                   GridQuestions(<< >>), "second", "none")} :
          db = out.db /\ conn = out.conn
    /\ call = NoCall
    /\ session = StarsSession
    /\ page = PartnerPage(StarsSession,
                          [kind |-> "customer", key |-> "", value |-> "c1"], << >>)

NextGrid == SelectSurvey \/ RatingEdit \/ RatingClick \/ RatingSession

SpecGrid == GridInit /\ [][NextGrid]_vars

-----------------------------------------------------------------------------
(* SpecRecheck: one partner session on a store that holds the answers bob  *)
(* of P1 gave for customer c1; the partner moves between two customers and *)
(* two companies before and after Step 4 has run.                          *)

\* submissions in the store, bob's included
MaxRecheckSubmissions == 2

RecheckInit ==
    /\ variant \in Variants
    /\ \E customers \in {[SeedTables EXCEPT !.customers = @ \cup
                            {[customer_id |-> "c2", customer_company |-> "Apex"]}]} :
       \E uploaded \in {upload_template(variant, customers, customers, "Intake",
                                        IntakeQuestions, "first", "none")} :
       \E out \in {submit_survey_responses(variant, uploaded.db, uploaded.conn,
                      [customer_id |-> "c1", customer_company |-> "Acme Co",
                       partner_name |-> "bob", partner_company |-> "P1",
                       template_name |-> "Intake", responses |-> OtherAnswers,
                       is_update |-> FALSE], "none", {})} :
          db = out.db /\ conn = out.conn
    /\ call = NoCall
    /\ session = [FreshSession EXCEPT !.partner_name = "alice"]
    /\ page = PartnerPage([FreshSession EXCEPT !.partner_name = "alice"],
                          [kind |-> "name", key |-> "", value |-> "alice"], << >>)

RecheckCompany ==
    /\ \E c \in {"P1", "P2"} :
         PartnerRun([kind |-> "company", key |-> "", value |-> c], {"none"})
    /\ UNCHANGED variant

RecheckCustomer ==
    /\ \E c \in {"c1", "c2"} :
         PartnerRun([kind |-> "customer", key |-> "", value |-> c], {"none"})
    /\ UNCHANGED variant

RecheckClick ==
    /\ page.ran /\ page.form /\ ~page.raised
    /\ Cardinality(conn.submissions) < MaxRecheckSubmissions
    /\ PartnerRun([kind |-> "click", key |-> "", value |-> ""], {"none"})
    /\ UNCHANGED variant

NextRecheck ==
    \/ RecheckCompany \/ RecheckCustomer \/ SelectSurvey
    \/ EditAnswer \/ RecheckClick

SpecRecheck == RecheckInit /\ [][NextRecheck]_vars

-----------------------------------------------------------------------------
(* parse_survey_file: the rows of an uploaded sheet.  A cell is "missing"  *)
(* (the sheet has no such column), "nan" (an empty cell), a "text" or a    *)
(* "num" (a number between 0 and 9 in this model).                         *)

Cell(k, s, n) == [k |-> k, s |-> s, n |-> n]

\* str(row.get(column, default))
CellStr(cell, default) ==
    CASE cell.k = "missing" -> default
      [] cell.k = "nan" -> << "n", "a", "n" >>
      [] cell.k = "num" -> << ToString(cell.n) >>
      [] OTHER -> cell.s

\* the letters str.lower() changes
AsciiLower ==
    LET upper == << "A", "B", "C", "D", "E", "F", "G", "H", "I", "J", "K", "L", "M",
                    "N", "O", "P", "Q", "R", "S", "T", "U", "V", "W", "X", "Y", "Z" >>
        lower == << "a", "b", "c", "d", "e", "f", "g", "h", "i", "j", "k", "l", "m",
                    "n", "o", "p", "q", "r", "s", "t", "u", "v", "w", "x", "y", "z" >>
    IN [c \in {upper[j] : j \in 1..26} |-> lower[CHOOSE j \in 1..26 : upper[j] = c]]

\* text.lower()
str_lower(text) ==
    [i \in 1..Len(text) |->
        IF text[i] \in DOMAIN AsciiLower THEN AsciiLower[text[i]] ELSE text[i]]

\* int(row.get(column, default)): raises (ok = FALSE) on an empty cell and
\* on a text that is not an optionally signed run of digits
CellInt(cell, default) ==
    LET digits == << "0", "1", "2", "3", "4", "5", "6", "7", "8", "9" >>
        t == str_strip(cell.s)
        signed == t # << >> /\ t[1] \in {"+", "-"}
        body == IF signed THEN Tail(t) ELSE t
        digit(c) == (CHOOSE j \in 1..10 : digits[j] = c) - 1
        value[i \in 0..Len(body)] ==
            IF i = 0 THEN 0 ELSE 10 * value[i - 1] + digit(body[i])
    IN CASE cell.k = "missing" -> [ok |-> TRUE, n |-> default]
         [] cell.k = "num" -> [ok |-> TRUE, n |-> cell.n]
         [] cell.k = "nan" -> [ok |-> FALSE, n |-> 0]
         [] OTHER ->
              IF body # << >> /\ \A i \in 1..Len(body) : \E j \in 1..10 : digits[j] = body[i]
              THEN [ok |-> TRUE,
                    n |-> IF signed /\ t[1] = "-" THEN 0 - value[Len(body)]
                          ELSE value[Len(body)]]
              ELSE [ok |-> FALSE, n |-> 0]

\* a list cell: [] when the cell is empty or blank, else the cell split on
\* the first of `seps` it contains
CellList(cell, seps) ==
    LET text == CellStr(cell, << >>)
    IN IF cell.k # "nan" /\ str_strip(text) # << >> THEN SplitCell(text, seps)
       ELSE << >>

\* the body of the loop over df.iterrows(): the question of row `idx`
\* (0-based); ok = FALSE when a conversion raises
ParseRow(idx, row) ==
    LET type == TextString(str_lower(CellStr(row.Type, << "t", "e", "x", "t" >>)))
        min_rating == CellInt(row.MinRating, 1)
        max_rating == CellInt(row.MaxRating, 5)
        depends == row.DependsOn.k \notin {"missing", "nan"}
        question ==
            [id |-> IF row.QuestionID.k = "missing" THEN "Q" \o ToString(idx + 1)
                    ELSE TextString(CellStr(row.QuestionID, << >>)),
             type |-> type,
             question |-> TextString(CellStr(row.Question, << >>)),
             section |-> TextString(CellStr(row.Section, << >>)),
             required |-> CellStr(row.Required, << "N", "o" >>)
                             \in { << "Y", "e", "s" >>, << "T", "R", "U", "E" >>,
                                   << "T", "r", "u", "e" >>, << "y", "e", "s" >>,
                                   << "t", "r", "u", "e" >> },
             dependsOn |-> IF depends THEN TextString(CellStr(row.DependsOn, << >>))
                           ELSE Absent,
             dependsOnValue |->
                 IF depends /\ row.DependsOnValue.k \notin {"missing", "nan"}
                 THEN TextString(CellStr(row.DependsOnValue, << >>)) ELSE Absent]
        lists(fields) == fields @@ question
    IN CASE type \in {"multiple_choice", "multiple_choice_single_select",
                      "multiple_choice_multi_select"} ->
                [ok |-> TRUE,
                 question |-> lists([options |->
                                 CellList(row.Options, << "|", ";", "," >>)])]
         [] type = "rating" ->
                [ok |-> min_rating.ok /\ max_rating.ok,
                 question |-> lists([minRating |-> min_rating.n,
                                     maxRating |-> max_rating.n])]
         [] type = "matrix" ->
                [ok |-> TRUE,
                 question |-> lists([matrixRows |->
                                         CellList(row.MatrixRows, << "|", "," >>),
                                     matrixCols |->
                                         CellList(row.MatrixCols, << "|", "," >>)])]
         [] OTHER -> [ok |-> TRUE, question |-> question]

\* a sheet row: the named cells, every other column missing from the sheet
Row(cells) ==
    [column \in {"QuestionID", "Type", "Question", "Section", "Required", "Options",
                 "MinRating", "MaxRating", "MatrixRows", "MatrixCols", "DependsOn",
                 "DependsOnValue"} |->
        IF column \in DOMAIN cells THEN cells[column] ELSE Cell("missing", << >>, 0)]

-----------------------------------------------------------------------------
(* SpecAdmin: the upload tab of render_admin_mode with one or two files in *)
(* the uploader.  A file is its extension, whether pandas can read it, and *)
(* its rows: a sheet without a QuestionID column, one with ids, a file     *)
(* pandas cannot read, one whose name does not end in a supported          *)
(* extension, and one whose rating bound is empty.                         *)

\* the lists of files put into the uploader
UploadedFiles ==
    LET text(t) == Cell("text", t, 0)
        defaulted ==
            [ext |-> "csv", readable |-> TRUE,
             rows |-> << Row([Question |-> text(<< "N" >>),
                              Required |-> text(<< "Y", "e", "s" >>)]),
                         Row([Question |-> text(<< "D" >>)]) >>]
        named ==
            [ext |-> "xlsx", readable |-> TRUE,
             rows |-> << Row([QuestionID |-> text(<< "A" >>),
                              Question |-> text(<< "U" >>)]) >>]
        unreadable == [ext |-> "csv", readable |-> FALSE, rows |-> << >>]
        unsupported ==
            [ext |-> "CSV", readable |-> TRUE,
             rows |-> << Row([QuestionID |-> text(<< "B" >>)]) >>]
        raising ==
            [ext |-> "xls", readable |-> TRUE,
             rows |-> << Row([QuestionID |-> text(<< "R" >>),
                              Type |-> text(<< "R", "a", "t", "i", "n", "g" >>),
                              MinRating |-> Cell("nan", << >>, 0)]) >>]
    IN { << defaulted >>, << named >>, << unreadable >>, << unsupported >>,
         << raising >>, << defaulted, named >>, << defaulted, defaulted >>,
         << named, named >>, << unreadable, named >>, << named, raising >>,
         << unsupported, defaulted >> }

\* parse_survey_file(uploaded_file): None (ok = FALSE) for an unsupported
\* extension, when reading raises and when the conversion of a row raises,
\* else the questions of the rows
parse_survey_file(uploaded_file) ==
    LET rows == uploaded_file.rows
        parsed == [i \in 1..Len(rows) |-> ParseRow(i - 1, rows[i])]
    IN IF uploaded_file.ext \notin {"xlsx", "xls", "csv"}
       THEN [ok |-> FALSE, questions |-> << >>]
       ELSE IF ~uploaded_file.readable \/ \E i \in 1..Len(rows) : ~parsed[i].ok
       THEN [ok |-> FALSE, questions |-> << >>]
       ELSE [ok |-> TRUE, questions |-> [i \in 1..Len(rows) |-> parsed[i].question]]

\* the loop over uploaded_files: all_questions
RECURSIVE AllQuestions(_)
AllQuestions(uploaded_files) ==
    IF uploaded_files = << >> THEN << >>
    ELSE LET questions == parse_survey_file(Head(uploaded_files))
         IN (IF questions.ok /\ questions.questions # << >>
             THEN questions.questions ELSE << >>)
            \o AllQuestions(Tail(uploaded_files))

\* one run of the upload tab; `clicked`: the Save Survey Template button,
\* which exists when all_questions is not empty, was clicked
render_admin_mode(v, D, C, survey_name, description, uploaded_files, clicked, fail) ==
    LET all_questions == AllQuestions(uploaded_files)
        saves == /\ uploaded_files # << >> /\ survey_name # ""
                 /\ all_questions # << >> /\ clicked
        out == upload_template(v, D, C, survey_name, all_questions,
                               description, fail)
        ret == [op |-> "admin", survey_name |-> survey_name,
                uploaded_files |-> uploaded_files,
                all_questions |-> all_questions, saves |-> saves]
    IN IF saves THEN [db |-> out.db, conn |-> out.conn, ret |-> ret]
       ELSE [db |-> D, conn |-> C, ret |-> ret]

AdminUpload ==
    /\ \E survey_name \in {"", "Intake"}, description \in {"first", "second"},
          uploaded_files \in UploadedFiles,
          clicked \in BOOLEAN, fail \in UploadFailures :
          Returned(render_admin_mode(variant, db, conn, survey_name, description,
                                     uploaded_files, clicked, fail))
    /\ HandlerFrame

NextAdmin == AdminUpload

SpecAdmin == Init /\ [][NextAdmin]_vars

-----------------------------------------------------------------------------
(* SpecParse: parse_survey_file applied to a sheet of one row.  Each        *)
(* behaviour parses one sheet.                                             *)

\* a sheet of one row of the given type whose cell in `column` is `cell`
ParseSheet(type, column, cell) ==
    /\ call = NoCall
    /\ \E uploaded_file \in
            {[ext |-> "csv", readable |-> TRUE,
              rows |-> << Row((column :> cell) @@ [Type |-> Cell("text", type, 0)]) >>]} :
       \E parsed \in {parse_survey_file(uploaded_file)} :
          call' = [op |-> "parse", column |-> column, cell |-> cell,
                   questions |-> parsed.questions]
    /\ UNCHANGED <<variant, db, conn, session, page>>

\* the Required cell of a text question
ParseRequired ==
    /\ \E cell \in {Cell("missing", << >>, 0), Cell("nan", << >>, 0), Cell("num", << >>, 1)}
                   \cup {Cell("text", t, 0) :
                            t \in Texts({"y", "e", "s", "Y", "E", "S"})
                                  \cup { << "t", "r", "u", "e" >>, << "T", "R", "U", "E" >>,
                                         << "T", "r", "u", "e" >>, << "t", "R", "u", "E" >> }} :
          ParseSheet(<< "t", "e", "x", "t" >>, "Required", cell)
    /\ TRUE

\* the Options cell of a choice question, the MatrixRows and the MatrixCols
\* cell of a matrix question
ParseLists ==
    /\ \E cell \in {Cell("missing", << >>, 0), Cell("nan", << >>, 0)}
                   \cup {Cell("text", t, 0) : t \in Texts({"a", " ", "|", ";", ","})} :
          \/ ParseSheet(<< "m", "u", "l", "t", "i", "p", "l", "e", "_",
                           "c", "h", "o", "i", "c", "e" >>, "Options", cell)
          \/ \E column \in {"MatrixRows", "MatrixCols"} :
                ParseSheet(<< "M", "a", "t", "r", "i", "x" >>, column, cell)
    /\ TRUE

NextParse == ParseRequired \/ ParseLists

SpecParse == Init /\ [][NextParse]_vars

-----------------------------------------------------------------------------
(* Answers under ids the template does not have; the history of rows;      *)
(* templates by name.                                                      *)

\* the questions of the template a submit named have no such id
UnknownId(T, template_name, question_id) ==
    \A t \in TemplateByName(T, template_name) :
        QuestionDetail(t.questions, question_id) = {}

\* C11: a non-empty answer under a question id the stored template does not
\* have does not abort the submit: a successful submit stored a response row
\* for it whose question text is the raw id and whose type is 'unknown', and
\* a submit fails only on a failing statement or a missing template.
C11_UnknownIdStoredAsUnknown ==
    /\ (call.op = "submit" /\ call.success) =>
          \A q \in StoredKeys(call.args.responses) :
              UnknownId(conn, call.args.template_name, q) =>
                  \E r \in conn.responses :
                      /\ r.submission_id = call.submission_id
                      /\ r.question_id = q
                      /\ r.question_text = q
                      /\ r.response_type = "unknown"
                      /\ r.response_value = Str(call.args.responses[q])
    /\ (call.op = "submit" /\ ~call.success) =>
          call.error \in {"storage", "template_not_found"}

\* a successful submit whose answers hold a non-empty answer under "Zed",
\* an id the Intake template does not have
C11_Witness ==
    /\ call.op = "submit" /\ call.success
    /\ call.args.template_name = "Intake"
    /\ "Zed" \in StoredKeys(call.args.responses)
    /\ TemplateByName(conn, "Intake") # {}
    /\ UnknownId(conn, "Intake", "Zed")
    /\ \E r \in conn.responses :
          /\ r.submission_id = call.submission_id
          /\ r.question_text = "Zed" /\ r.response_type = "unknown"

\* C12: history is immutable: every submission row and response row the
\* connection or the committed store holds is still there, unchanged, after
\* any submit or template upload, and a successful submit adds exactly one
\* submission row.
C12_HistoryImmutable ==
    [][/\ conn.submissions \subseteq conn'.submissions
       /\ conn.responses \subseteq conn'.responses
       /\ db.submissions \subseteq db'.submissions
       /\ db.responses \subseteq db'.responses
       /\ (call'.op = "submit" /\ call'.success) =>
             /\ Cardinality(conn'.submissions) = Cardinality(conn.submissions) + 1
             /\ \A r \in conn'.responses \ conn.responses :
                   r.submission_id = call'.submission_id
       /\ (call'.op = "submit" /\ ~call'.success /\ variant = "direct") =>
             conn'.submissions = conn.submissions
       /\ call'.op # "submit" =>
             /\ conn'.submissions = conn.submissions
             /\ conn'.responses = conn.responses]_vars

\* two submissions are stored, the later one an update of the earlier, and a
\* response row keeps the text and type of a question the template, uploaded
\* again since, no longer has
C12_Witness ==
    /\ \E s1, s2 \in conn.submissions :
          s2.is_update /\ s2.previous_submission_id = s1.id
    /\ \E r \in conn.responses :
          /\ r.question_id = "Name" /\ r.response_type = "text"
          /\ \A t \in conn.templates : QuestionDetail(t.questions, "Name") = {}

\* C13: an upload under a name that already exists replaces the stored
\* question sequence with the uploaded one and does not increase the number
\* of templates; there is at most one template per name.
C13_UploadReplacesByName ==
    [][call'.op = "upload" =>
          /\ \A t1, t2 \in conn'.templates :
                t1.template_name = t2.template_name => t1 = t2
          /\ \A t1, t2 \in db'.templates :
                t1.template_name = t2.template_name => t1 = t2
          /\ TemplateByName(conn, call'.survey_name) # {} =>
                Cardinality(conn'.templates) <= Cardinality(conn.templates)
          /\ call'.fail = "none" =>
                \E t \in conn'.templates :
                    /\ t.template_name = call'.survey_name
                    /\ t.questions = call'.questions]_vars

\* the template a stored submission refers to has been uploaded again with
\* other questions: it is still the only template, with the new sequence
C13_Witness ==
    /\ call.op = "upload" /\ call.fail = "none"
    /\ call.questions = ChainQuestions
    /\ Cardinality(conn.templates) = 1
    /\ \E t \in conn.templates, s \in conn.submissions, r \in conn.responses :
          /\ s.template_id = t.id /\ r.submission_id = s.id
          /\ t.questions = ChainQuestions
          /\ r.question_id = "Name" /\ r.response_type = "text"

-----------------------------------------------------------------------------
(* Two submit calls on the shared connection.                              *)

\* the rows of a frame's call that the tables T hold
OwnSubmissions(T, f) == {s \in T.submissions : s.id = f.submission_id}
OwnResponses(T, f) ==
    {r \in T.responses :
        r.submission_id = f.submission_id /\ r.question_id \in f.written}

\* C14: two submit calls of different partners do not conflict on the shared
\* connection: while a call is under way the rows it has written are still
\* in its transaction and not yet committed; a call that returned success
\* has all its rows committed; a call that returned failure has none.
C14_SubmitsDoNotConflict ==
    \A p \in Sessions :
        LET f == call[p]
            all == StoredKeys(f.a.responses)
        IN /\ (InFlight(f) /\ f.submission_id # Null) =>
                 /\ OwnSubmissions(conn, f) # {}
                 /\ \A q \in f.written :
                       \E r \in OwnResponses(conn, f) : r.question_id = q
                 /\ OwnSubmissions(db, f) = {}
                 /\ OwnResponses(db, f) = {}
           /\ (f.pc = "done" /\ f.ret = "success") =>
                 /\ OwnSubmissions(db, f) # {}
                 /\ \A q \in all :
                       \E r \in OwnResponses(db, f) : r.question_id = q
           /\ (f.pc = "done" /\ f.ret = "failed") =>
                 /\ OwnSubmissions(db, f) = {}
                 /\ OwnResponses(db, f) = {}

-----------------------------------------------------------------------------
(* The export.                                                             *)

StoredResponses(T, submission_id) ==
    {r \in T.responses : r.submission_id = submission_id}

\* C15: the Summary sheet has exactly one row per submission, whose
\* response_count is the number of response rows stored for it (0 for a
\* submission without responses), and the Detailed Responses sheet has
\* exactly one row per stored response.
C15_SummaryCountsResponses ==
    (call.op = "export" /\ call.result.sheets) =>
        /\ {row.key.submission_uuid : row \in call.result.Summary}
              = {s.id : s \in conn.submissions}
        /\ Cardinality(call.result.Summary) = Cardinality(conn.submissions)
        /\ \A row \in call.result.Summary :
              row.response_count =
                  Cardinality(StoredResponses(conn, row.key.submission_uuid))
        /\ {row.index[2] : row \in call.result.Detailed}
              = {r.id : r \in conn.responses}
        /\ Cardinality(call.result.Detailed) = Cardinality(conn.responses)

\* C16: an export whose query ran returns no workbook (the 'no data' value)
\* iff the store holds no submission; in particular it returns a workbook
\* when the only submissions have no response.
C16_NoDataIffNoSubmission ==
    (call.op = "export" /\ ~call.failed) =>
        (call.result.sheets <=> conn.submissions # {})

\* a workbook was returned for a store whose submissions have no response
C16_Witness ==
    /\ call.op = "export" /\ ~call.failed
    /\ call.result.sheets
    /\ conn.submissions # {}
    /\ conn.responses = {}

-----------------------------------------------------------------------------
(* Multi-select and matrix answers as strings.                             *)

SeqSet(q) == {q[i] : i \in 1..Len(q)}

\* the dict whose items are `items`
ItemsDict(items) ==
    [x \in {items[k][1] : k \in 1..Len(items)} |->
        (CHOOSE k \in 1..Len(items) : items[k][1] = x) ]

\* C17: round trip: the options split from the '|'-joined value of a
\* multi-select question are the selected options as a set, the empty
\* selection being the empty string and back; the dict loaded from the
\* serialized matrix answer equals the dict that was serialized.
C17_RoundTrip ==
    /\ call.op = "multiselect" =>
          /\ SeqSet(call.default) = SeqSet(call.selected)
          /\ call.selected = << >> <=> call.value = << >>
          /\ call.value = << >> => call.default = << >>
    /\ call.op = "matrix" =>
          /\ DOMAIN call.existing_matrix = DOMAIN ItemsDict(call.items)
          /\ \A x \in DOMAIN call.existing_matrix :
                call.existing_matrix[x] = call.items[ItemsDict(call.items)[x]][2]

\* two options were selected, the later one first, and read back
C17_Witness ==
    /\ call.op = "multiselect"
    /\ call.selected = << << "b" >>, << "a" >> >>
    /\ call.value = << "b", "|", "a" >>
    /\ SeqSet(call.default) = { << "a" >>, << "b" >> }

\* C18: the serialized matrix answer maps exactly the rows that have a
\* selected column, each to a column selected for it; without any selection
\* the answer is the empty string, never "{}", and the question, when
\* required, is missing.
C18_MatrixMapsSelectedRows ==
    call.op = "matrix" =>
        /\ call.value # << "{", "}" >>
        /\ call.cells = {} <=> call.value = << >>
        /\ DOMAIN call.existing_matrix
              = {call.matrix_rows[cell[1]] : cell \in call.cells}
        /\ \A x \in DOMAIN call.existing_matrix :
              /\ \E cell \in call.cells :
                    /\ call.matrix_rows[cell[1]] = x
                    /\ call.matrix_cols[cell[2]] = call.existing_matrix[x]
        /\ \A r \in 1..Len(call.matrix_rows) :
              LET chosen == {cell \in call.cells :
                                call.matrix_rows[cell[1]] = call.matrix_rows[r]}
              IN Cardinality({call.matrix_cols[cell[2]] : cell \in chosen}) = 1 =>
                    \A cell \in chosen :
                        call.existing_matrix[call.matrix_rows[r]]
                            = call.matrix_cols[cell[2]]
        /\ call.cells = {} <=> call.missing_required # << >>

\* of two rows one has a selected column: the answer maps that row only
C18_Witness ==
    /\ call.op = "matrix"
    /\ Len(call.matrix_rows) = 2 /\ call.matrix_rows[1] # call.matrix_rows[2]
    /\ Cardinality(call.cells) = 1
    /\ Cardinality(DOMAIN call.existing_matrix) = 1
    /\ call.value # << >>
    /\ call.missing_required = << >>

-----------------------------------------------------------------------------
(* Rating answers.                                                         *)

\* C19: every answer a submit persists for a rating question is the decimal
\* string of an integer between the question's minRating and maxRating; in
\* particular a pre-filled value outside the bounds is not persisted as it is.
C19_RatingWithinBounds ==
    (call.op = "submit" /\ call.success) =>
        \A r \in conn.responses :
            (r.submission_id = call.submission_id /\ r.response_type = "rating") =>
                \A t \in TemplateByName(conn, call.args.template_name) :
                \A q \in QuestionDetail(t.questions, r.question_id) :
                    \E n \in q.minRating..q.maxRating :
                        r.response_value = ToString(n)

-----------------------------------------------------------------------------
(* The upload tab.                                                         *)

\* a file of the run failed to parse
SomeFileFailed(uploaded_files) ==
    \E i \in 1..Len(uploaded_files) : ~parse_survey_file(uploaded_files[i]).ok

\* C20: when a file of an upload fails to parse, no template is saved from
\* that upload: the template stored under the name stays as the connection
\* saw it (or as committed, when a failing statement rolls back), and is
\* never made of the questions of the files that did parse.
C20_NoPartialTemplate ==
    [][(call'.op = "admin" /\ SomeFileFailed(call'.uploaded_files)) =>
          \/ TemplateByName(conn', call'.survey_name)
                = TemplateByName(conn, call'.survey_name)
          \/ TemplateByName(conn', call'.survey_name)
                = TemplateByName(db, call'.survey_name)]_vars

-----------------------------------------------------------------------------
(* The sheet parser.                                                       *)

\* C21: every template saved by the upload flow has question ids that are
\* unique within the template, for any number of uploaded files and when
\* the ids are defaulted to Q<row number>.
C21_QuestionIdsUnique ==
    \A t \in conn.templates :
        \A i, j \in 1..Len(t.questions) :
            i # j => t.questions[i].id # t.questions[j].id

\* C22: the parsed question is required iff the raw Required cell, compared
\* case-insensitively, is 'yes' or 'true'.
C22_RequiredCaseInsensitive ==
    (call.op = "parse" /\ call.column = "Required") =>
        (call.questions[1].required
            <=> str_lower(CellStr(call.cell, << "N", "o" >>))
                    \in { << "y", "e", "s" >>, << "t", "r", "u", "e" >> })

\* the list a cell gives under the rule pipe, then semicolon, then comma
ListRule(cell) == CellList(cell, << "|", ";", "," >>)

\* C23: every option list, matrix row list and matrix column list is the
\* cell split on the first separator present in the order pipe, semicolon,
\* comma, every token trimmed and empty tokens discarded.
C23_ListsSplitAlike ==
    (call.op = "parse" /\ call.column # "Required") =>
        LET question == call.questions[1]
        IN CASE call.column = "Options" -> question.options = ListRule(call.cell)
             [] call.column = "MatrixRows" -> question.matrixRows = ListRule(call.cell)
             [] OTHER -> question.matrixCols = ListRule(call.cell)

-----------------------------------------------------------------------------
(* Templates over time.                                                    *)

\* C24: a template that upload_template reported as saved stays stored with
\* its question sequence through every later operation, failing ones
\* included; only a later successful upload under its name replaces the
\* sequence.
C24_UploadedTemplateStays ==
    [][\A t \in conn.templates :
          \E u \in conn'.templates :
             /\ u.template_name = t.template_name
             /\ \/ u.questions = t.questions
                \/ /\ call'.op = "upload" /\ call'.ok
                   /\ call'.survey_name = t.template_name]_vars

-----------------------------------------------------------------------------
(* Links between submissions.                                              *)

\* the submissions of table set T are linked as C26 says
LinkedBackwards(T) ==
    \A s \in T.submissions :
        /\ s.previous_submission_id # Null =>
              \E p \in T.submissions :
                 /\ p.id = s.previous_submission_id
                 /\ p.id < s.id
                 /\ p.customer_id = s.customer_id
                 /\ p.template_id = s.template_id
        /\ ~s.is_update => s.previous_submission_id = Null

\* C26: a submission's previous_submission_id, when present, names an
\* existing submission with a smaller id, the same customer and the same
\* template, and it is absent on every submission created with
\* is_update = false; this holds of the committed tables and of the tables
\* the connection sees.
C26_PreviousLinksBackwards == LinkedBackwards(db) /\ LinkedBackwards(conn)

\* a submit has stored a submission linked to an earlier one that was
\* created with is_update = false
C26_Witness ==
    /\ call.op = "submit" /\ call.success
    /\ \E s, o \in conn.submissions :
          /\ s.previous_submission_id = o.id
          /\ ~o.is_update

-----------------------------------------------------------------------------
(* The update flag of the partner page.                                    *)

\* C25: when the page invokes submit, is_update is true iff the store holds
\* a submission for the customer, partner company and survey that are
\* selected at that moment.
C25_UpdateFlagMatchesTriple ==
    [][(page'.ran /\ page'.submitted) =>
          (SubmitArgs(session').is_update
              <=> TripleSubmissions(conn, SubmitArgs(session').customer_id,
                                    SubmitArgs(session').partner_company,
                                    SubmitArgs(session').template_name) # {})]_vars

-----------------------------------------------------------------------------
(* The answers of hidden questions.                                        *)

\* the answers the form of a run starts from: those of the session, or the
\* ones Step 4 loaded in this run
RunResponses ==
    IF /\ ~session.existing_responses_checked
       /\ call'.op = "check" /\ call'.result.has_existing
    THEN call'.result.responses
    ELSE session.survey_responses

\* the stored answer under id q is the same before and after the run
AnswerKept(before, after, q) ==
    IF q \in DOMAIN before
    THEN q \in DOMAIN after /\ after[q] = before[q]
    ELSE q \notin DOMAIN after

\* question ids whose question is hidden under `responses`
HiddenIds(questions, responses) ==
    {questions[i].id : i \in {i \in 1..Len(questions) :
                                ~should_show_question(questions[i], responses)}}

\* C27: a run of the page leaves the stored answer of every question that
\* is hidden (before and after the run) as it was, and a successful submit
\* stores a response row for every non-empty stored answer, those of hidden
\* questions included.
C27_HiddenAnswersKept ==
    [][page'.ran =>
          /\ \A q \in HiddenIds(SessionQuestions', RunResponses)
                        \cap HiddenIds(SessionQuestions', session'.survey_responses) :
                AnswerKept(RunResponses, session'.survey_responses, q)
          /\ (page'.submitted /\ call'.op = "submit" /\ call'.success) =>
                \A q \in DOMAIN session'.survey_responses :
                    NonEmptyAnswer(session'.survey_responses[q]) =>
                        \E r \in conn'.responses :
                            /\ r.submission_id = call'.submission_id
                            /\ r.question_id = q]_vars

\* a successful submit stored the non-empty answer of a question that was
\* hidden when the form was submitted
C27_Witness ==
    /\ page.ran /\ page.submitted /\ call.op = "submit" /\ call.success
    /\ \E q \in HiddenIds(SessionQuestions, session.survey_responses) :
          /\ q \in DOMAIN session.survey_responses
          /\ NonEmptyAnswer(session.survey_responses[q])
          /\ \E r \in conn.responses :
                r.submission_id = call.submission_id /\ r.question_id = q

-----------------------------------------------------------------------------
(* Matrix questions without rows or columns.                               *)

\* the matrix questions among `questions` that lack rows or columns
EmptyMatrices(questions) ==
    {questions[i] : i \in {i \in 1..Len(questions) :
        /\ questions[i].type = "matrix"
        /\ \/ questions[i].matrixRows = << >>
           \/ questions[i].matrixCols = << >>}}

\* C28 as stated: a required matrix question without rows or columns that
\* is shown is missing in every state of the rendered form, and no click on
\* that form passes validation.
C28_EmptyMatrixNeverSubmits ==
    (page.ran /\ page.form /\ ~page.raised) =>
        \A q \in EmptyMatrices(SessionQuestions) :
            (q.required /\ should_show_question(q, session.survey_responses)) =>
                /\ ~Truthy(DictGet(session.survey_responses, q.id, PyNone))
                /\ ~page.submitted

\* C28, amended: a matrix question without rows or columns that is shown
\* both with the answers the run starts from and with those it ends with
\* holds the empty answer after the run, and when it is required the click
\* of that run does not pass validation.
C28_RenderedEmptyMatrixIsMissing ==
    [][(page'.ran /\ page'.form /\ ~page'.raised) =>
          \A q \in EmptyMatrices(SessionQuestions') :
              (/\ should_show_question(q, RunResponses)
               /\ should_show_question(q, session'.survey_responses)) =>
                  /\ q.id \in DOMAIN session'.survey_responses
                  /\ session'.survey_responses[q.id] = PyStr("")
                  /\ q.required => ~page'.submitted]_vars

\* a click was refused because the shown, required matrix question without
\* rows is missing
C28_Witness ==
    /\ page.ran /\ page.form /\ page.clicked /\ ~page.submitted
    /\ \E q \in EmptyMatrices(SessionQuestions) :
          /\ q.required /\ should_show_question(q, session.survey_responses)
          /\ DictGet(session.survey_responses, q.id, PyNone) = PyStr("")
          /\ q.question \in {page.missing_required[i] :
                                i \in 1..Len(page.missing_required)}

-----------------------------------------------------------------------------
(* Interleaved submits of the helper variant.                              *)

\* C29: in the helper variant every response row a submit call wrote
\* references the submission row that call inserted, and no call fails with
\* a customer-id mismatch after it inserted its submission row, whatever the
\* interleaving of two calls of the same partner and template.
C29_ResponsesJoinOwnSubmission ==
    \A p \in Sessions :
        /\ \A r \in conn.responses :
              r.id \in call[p].rows => r.submission_id = call[p].inserted
        /\ call[p].ret # "mismatch"

-----------------------------------------------------------------------------
(* Re-uploading a template.                                                *)

\* C30: a step never changes the id or the description of a template the
\* connection keeps seeing under the same name, nor the name a template id
\* stands for; a re-upload under an existing name, whatever description it
\* supplies, replaces the question sequence only, so the template references
\* of the submissions stay valid.
C30_ReuploadKeepsIdAndDescription ==
    [][\A t \in conn.templates : \A u \in conn'.templates :
          /\ u.template_name = t.template_name =>
                u.id = t.id /\ u.description = t.description
          /\ u.id = t.id => u.template_name = t.template_name]_vars

\* a successful re-upload with another description and other questions: the
\* stored description is still the first one, the questions are the new ones
C30_Witness ==
    /\ call.op = "upload" /\ call.fail = "none"
    /\ call.description = "second"
    /\ \E t \in conn.templates :
          /\ t.template_name = call.survey_name
          /\ t.description = "first"
          /\ t.questions = call.questions
          /\ t.questions = StarsQuestions(1)

=============================================================================
